---- MODULE Spec2Model ----
(***************************************************************************)
(* Scheduling and trade-lifecycle engine of the trading bot:               *)
(* StockPoller (src/poller.py) driving RiskManager (src/risk_manager.py),  *)
(* with the decision validation of AIDecisionEngine and the broker and     *)
(* screening collaborators as sources of nondeterministic outcomes.        *)
(*                                                                         *)
(* Money and prices are integers (rupees); fractions of the configuration  *)
(* are kept as numerator/denominator pairs so comparisons are exact.       *)
(* A datetime is a record [day, tod]: calendar day and second of the day.  *)
(***************************************************************************)
EXTENDS Integers, Sequences, FiniteSets, TLC

(* ------------------------- bounds of the model ------------------------- *)

\* Calendar days are 0..MaxDay.
MaxDay == 1

\* Broker exits stop succeeding once this many outcomes were recorded in a day.
MaxDailyTrades == 1

\* At most this many start() tasks are created.
MaxStarts == 3

\* The risk manager on its own records at most this many outcomes a day.
MaxRecorded == 4

(* ------------------------- program constants --------------------------- *)

INITIAL_CAPITAL == 100000
MAX_ACTIVE_TRADES == 2
MAX_DAILY_LOSSES == 3
\* MAX_CAPITAL_PER_TRADE = 0.01, MAX_DAILY_DRAWDOWN = 0.05, as percentages
MAX_CAPITAL_PER_TRADE_PCT == 1
MAX_DAILY_DRAWDOWN_PCT == 5
\* MIN_RISK_REWARD_RATIO = 1.5 and AI_CONFIDENCE_THRESHOLD = 0.8, times 100
MIN_RISK_REWARD_X100 == 150
AI_CONFIDENCE_THRESHOLD_PCT == 80
MARKET_OPEN_HOUR == 9
MARKET_OPEN_MINUTE == 15
MARKET_CLOSE_HOUR == 15
MARKET_CLOSE_MINUTE == 30
FORCE_EXIT_HOUR == 15
FORCE_EXIT_MINUTE == 10
INACTIVE_POLL_INTERVAL == 600
ACTIVE_POLL_INTERVAL == 60
\* time-based exit after 4 hours in the trade
MAX_HOLD_SECONDS == 14400
\* RiskManager.is_near_market_close: no trading from hour 15, nor within
\* 600 seconds of it
NEAR_CLOSE_HOUR == 15
NEAR_CLOSE_WINDOW == 600
\* the capital buffer of calculate_position_size: 0.9 of the capital
CAPITAL_LIMIT_PCT == 90

(* ------------------------------ inputs --------------------------------- *)

\* The symbols screening can return, in the order it returns them.
SymbolOrder == <<"A", "B", "C">>

\* The instants of a day at which the clock is sampled: 09:00 (before the
\* market opens), 09:15 (open), 13:16 (more than 4 hours after the open)
\* and 15:10 (force exit).
TimesOfDay == <<32400, 33300, 47760, 54600>>

\* Prices a quote can carry; 0 stands for "no price" (None).
Prices == {0, 480, 500, 520}

\* The number of stocks a screening can return: none (it failed or found
\* nothing) or all of SymbolOrder.
ScreeningResults == {0, Len(SymbolOrder)}

\* A position whose unrealized_pnl is None; sum() raises on it.
NoPnL == 999999999

\* Unrealized P&L values the broker can report for one of its positions.
PositionPnLs == {0, NoPnL}

\* The P&L reports of the broker for the positions it holds.
PositionReports(held) == [held -> PositionPnLs]

\* The decisions the oracle can return.  risk_reward_ratio is the ratio the
\* oracle reports (times 100), position_size a fraction of the capital in
\* basis points, confidence a percentage.  LOWRR reports a ratio its prices
\* do not have; TINY asks for a position worth less than one share; BADSTOP
\* is a BUY with its stop above the entry, BADTARGET a SELL with its target
\* above the entry.
Decision(id) ==
    CASE id = "BUY" ->
           [decision |-> "BUY", confidence |-> 90, entry_price |-> 500,
            stop_loss |-> 490, target_price |-> 520,
            risk_reward_ratio |-> 200, position_size |-> 100]
      [] id = "SELL" ->
           [decision |-> "SELL", confidence |-> 90, entry_price |-> 500,
            stop_loss |-> 510, target_price |-> 480,
            risk_reward_ratio |-> 200, position_size |-> 100]
      [] id = "LOWRR" ->
           [decision |-> "BUY", confidence |-> 90, entry_price |-> 500,
            stop_loss |-> 480, target_price |-> 510,
            risk_reward_ratio |-> 200, position_size |-> 100]
      [] id = "TINY" ->
           [decision |-> "BUY", confidence |-> 90, entry_price |-> 500,
            stop_loss |-> 490, target_price |-> 520,
            risk_reward_ratio |-> 200, position_size |-> 10]
      [] id = "BADSTOP" ->
           [decision |-> "BUY", confidence |-> 90, entry_price |-> 500,
            stop_loss |-> 510, target_price |-> 520,
            risk_reward_ratio |-> 200, position_size |-> 100]
      [] id = "BADTARGET" ->
           [decision |-> "SELL", confidence |-> 90, entry_price |-> 500,
            stop_loss |-> 510, target_price |-> 520,
            risk_reward_ratio |-> 200, position_size |-> 100]
      [] OTHER ->
           [decision |-> "HOLD", confidence |-> 30, entry_price |-> 500,
            stop_loss |-> 0, target_price |-> 0,
            risk_reward_ratio |-> 0, position_size |-> 0]

\* The decisions the oracle can return for a symbol.
DecisionsFor(symbol) ==
    CASE symbol = "A" -> {"BUY", "BADSTOP", "HOLD"}
      [] symbol = "B" -> {"SELL", "BADTARGET", "HOLD"}
      [] OTHER -> {"LOWRR", "TINY", "HOLD"}

\* a dict with no key
EmptyMap == [s \in {} |-> 0]

\* The instants at which the risk manager on its own is called after
\* 09:00: 14:50:00, 14:50:01 and 15:00.
RiskTimes == {53400, 53401, 54000}

\* The trades put to the risk manager, as entry, stop and target price:
\* a sound one, one with a reward of one risk only, one with a stop one
\* rupee away (its size is capped by the capital), one with the stop at
\* the entry, and two whose risk per share exceeds the risk allowed, with
\* too small a reward and with a sufficient one; and the trade of
\* quickstart.py.
RiskTrades ==
    {<<500, 490, 520>>, <<500, 490, 510>>, <<500, 499, 520>>,
     <<500, 500, 520>>, <<3000, 1500, 3100>>, <<3000, 1500, 6000>>,
     <<2500, 2450, 2600>>}

\* The outcomes recorded with the risk manager, as transaction type, entry
\* price, exit price and quantity: a loss, a break-even trade, a gain, and
\* a trade of no share.
RecordedOutcomes ==
    {<<"BUY", 500, 480, 2>>, <<"BUY", 500, 500, 2>>,
     <<"SELL", 500, 300, 2>>, <<"SELL", 500, 520, 0>>}

\* The positions put to check_trading_allowed, each with its unrealized
\* P&L: none; one that is flat, down 6000, or down by more than the whole
\* capital; two flat ones.
AccountReports ==
    {EmptyMap} \cup [{"A"} -> {-101050, -6000, 0, NoPnL}] \cup [{"A", "B"} -> {0}]

(* ------------------------------ helpers -------------------------------- *)

NoTime == [day |-> -1, tod |-> 0]

Secs(t) == t.day * 86400 + t.tod

\* (a - b).total_seconds()
SecondsBetween(a, b) == Secs(a) - Secs(b)

Abs(x) == IF x < 0 THEN -x ELSE x

\* int(a / b) of Python for b > 0: truncation towards zero
TruncDiv(a, b) == IF a >= 0 THEN a \div b ELSE -((-a) \div b)

RECURSIVE SumOver(_, _)
SumOver(f, S) ==
    IF S = {} THEN 0
    ELSE LET x == CHOOSE y \in S : TRUE IN f[x] + SumOver(f, S \ {x})

RECURSIVE Remove(_, _)
Remove(seq, x) ==
    IF seq = <<>> THEN <<>>
    ELSE IF Head(seq) = x THEN Remove(Tail(seq), x)
    ELSE <<Head(seq)>> \o Remove(Tail(seq), x)

Restrict(f, S) == [x \in S |-> f[x]]

(* ------------------------------ state ---------------------------------- *)

VARIABLES
    clock,       \* datetime.now(): [day, tod]
    poller,      \* the fields of StockPoller
    risk,        \* the fields of RiskManager
    positions,   \* broker.positions: the symbols with an open position
    pc,          \* where run_continuous_polling stands
    now,         \* the local `now` of the current loop iteration
    queue,       \* the symbols left in the pass in flight
    calls,       \* the calls made by the last step, in order
    lastEval,    \* the exit evaluation made by the last step, if any
    riskResult,  \* the result of the risk check made by the last step, if any
    tickInfo,    \* what the loop iterations have observed and done
    bot          \* TradingBot.is_running, StockPoller.is_running and the
                 \* start() tasks created so far

vars == <<clock, poller, risk, positions, pc, now, queue, calls, lastEval,
          riskResult, tickInfo, bot>>

(* --------------------------- RiskManager -------------------------------- *)

\* RiskManager.get_current_capital
GetCurrentCapital(r) == INITIAL_CAPITAL + r.daily_pnl

\* RiskManager.reset_daily_metrics with the comparison of the dates inverted
ResetDailyMetricsInverted(r, today) ==
    IF today = r.last_reset_date
    THEN LET cleared == [r EXCEPT !.daily_trades = <<>>,
                                  !.daily_pnl = 0,
                                  !.daily_loss_count = 0,
                                  !.max_drawdown_today = [num |-> 0, den |-> 1]]
         IN [cleared EXCEPT !.start_of_day_capital = GetCurrentCapital(cleared),
                            !.last_reset_date = today]
    ELSE r

\* RiskManager.reset_daily_metrics
ResetDailyMetrics(r, today) ==
    IF today /= r.last_reset_date
    THEN LET cleared == [r EXCEPT !.daily_trades = <<>>,
                                  !.daily_pnl = 0,
                                  !.daily_loss_count = 0,
                                  !.max_drawdown_today = [num |-> 0, den |-> 1]]
         IN [cleared EXCEPT !.start_of_day_capital = GetCurrentCapital(cleared),
                            !.last_reset_date = today]
    ELSE r

\* RiskManager.calculate_position_size with the quantity rounded up
\* instead of truncated
CalculatePositionSizeRoundsUp(r, entry_price, stop_loss) ==
    LET current_capital == GetCurrentCapital(r)
        risk_per_share == Abs(entry_price - stop_loss)
    IN IF risk_per_share <= 0 THEN <<0, 0>>
       ELSE LET by_risk == TruncDiv(current_capital * MAX_CAPITAL_PER_TRADE_PCT,
                                    100 * risk_per_share) + 1
                max_quantity ==
                    IF by_risk * entry_price * 100 > current_capital * CAPITAL_LIMIT_PCT
                    THEN TruncDiv(current_capital * CAPITAL_LIMIT_PCT, 100 * entry_price)
                    ELSE by_risk
            IN <<max_quantity, max_quantity * risk_per_share>>

\* RiskManager.calculate_position_size without the limit of 0.9 of the
\* capital on the value of the position
CalculatePositionSizeNoCap(r, entry_price, stop_loss) ==
    LET current_capital == GetCurrentCapital(r)
        risk_per_share == Abs(entry_price - stop_loss)
    IN IF risk_per_share <= 0 THEN <<0, 0>>
       ELSE LET max_quantity ==
                    TruncDiv(current_capital * MAX_CAPITAL_PER_TRADE_PCT,
                             100 * risk_per_share)
            IN <<max_quantity, max_quantity * risk_per_share>>

\* RiskManager.calculate_position_size: <<quantity, actual_risk>>
CalculatePositionSize(r, entry_price, stop_loss) ==
    LET current_capital == GetCurrentCapital(r)
        risk_per_share == Abs(entry_price - stop_loss)
    IN IF risk_per_share <= 0 THEN <<0, 0>>
       ELSE LET by_risk == TruncDiv(current_capital * MAX_CAPITAL_PER_TRADE_PCT,
                                    100 * risk_per_share)
                max_quantity ==
                    IF by_risk * entry_price * 100 > current_capital * CAPITAL_LIMIT_PCT
                    THEN TruncDiv(current_capital * CAPITAL_LIMIT_PCT, 100 * entry_price)
                    ELSE by_risk
            IN <<max_quantity, max_quantity * risk_per_share>>

NoMetrics(reason) ==
    [position_size |-> 0, risk_amount |-> 0, reward_amount |-> 0,
     is_within_limits |-> FALSE, rejection_reason |-> reason]

\* RiskManager.validate_trade_risk without the check of the ratio
ValidateTradeRiskNoRatio(r, entry_price, stop_loss, target_price) ==
    LET risk_per_share == Abs(entry_price - stop_loss)
        reward_per_share == Abs(target_price - entry_price)
        sized == CalculatePositionSize(r, entry_price, stop_loss)
        quantity == sized[1]
        risk_amount == sized[2]
    IN IF risk_per_share <= 0 THEN NoMetrics("Invalid stop loss price")
       ELSE IF quantity <= 0 THEN NoMetrics("Cannot calculate valid position size")
       ELSE IF risk_amount * 100 > MAX_CAPITAL_PER_TRADE_PCT * GetCurrentCapital(r)
       THEN [position_size |-> quantity, risk_amount |-> risk_amount,
             reward_amount |-> quantity * reward_per_share,
             is_within_limits |-> FALSE,
             rejection_reason |-> "Capital at risk exceeds limit"]
       ELSE [position_size |-> quantity, risk_amount |-> risk_amount,
             reward_amount |-> quantity * reward_per_share,
             is_within_limits |-> TRUE, rejection_reason |-> ""]

\* RiskManager.validate_trade_risk, after its reset_daily_metrics
ValidateTradeRisk(r, entry_price, stop_loss, target_price) ==
    LET risk_per_share == Abs(entry_price - stop_loss)
        reward_per_share == Abs(target_price - entry_price)
        sized == CalculatePositionSize(r, entry_price, stop_loss)
        quantity == sized[1]
        risk_amount == sized[2]
    IN IF risk_per_share <= 0 THEN NoMetrics("Invalid stop loss price")
       ELSE IF reward_per_share * 100 < MIN_RISK_REWARD_X100 * risk_per_share
       THEN NoMetrics("R:R ratio below minimum")
       ELSE IF quantity <= 0 THEN NoMetrics("Cannot calculate valid position size")
       ELSE IF risk_amount * 100 > MAX_CAPITAL_PER_TRADE_PCT * GetCurrentCapital(r)
       THEN [position_size |-> quantity, risk_amount |-> risk_amount,
             reward_amount |-> quantity * reward_per_share,
             is_within_limits |-> FALSE,
             rejection_reason |-> "Capital at risk exceeds limit"]
       ELSE [position_size |-> quantity, risk_amount |-> risk_amount,
             reward_amount |-> quantity * reward_per_share,
             is_within_limits |-> TRUE, rejection_reason |-> ""]

\* RiskManager.is_near_market_close
IsNearMarketClose(t) ==
    \/ t.tod >= NEAR_CLOSE_HOUR * 3600
    \/ NEAR_CLOSE_HOUR * 3600 - t.tod < NEAR_CLOSE_WINDOW

RECURSIVE Gcd(_, _)
Gcd(a, b) == IF b = 0 THEN a ELSE Gcd(b, a % b)

\* the quotient n / d, d > 0, in lowest terms
Frac(n, d) ==
    LET g == Gcd(Abs(n), d) IN [num |-> n \div g, den |-> d \div g]

\* a < b for fractions [num, den] with positive denominators
FracLess(a, b) == a.num * b.den < b.num * a.den

\* RiskManager.check_trading_allowed with the loss limit checked before the
\* number of active trades
CheckTradingAllowedLossesFirst(r0, active_positions, t) ==
    LET r1 == ResetDailyMetrics(r0, t.day)
        current_capital == GetCurrentCapital(r1)
        active_trades == Cardinality(DOMAIN active_positions)
        total_unrealized_pnl == SumOver(active_positions, DOMAIN active_positions)
        current_drawdown ==
            Frac(r1.start_of_day_capital - current_capital, r1.start_of_day_capital)
        drawdown ==
            IF current_capital < r1.start_of_day_capital
               /\ FracLess(r1.max_drawdown_today, current_drawdown)
            THEN current_drawdown
            ELSE r1.max_drawdown_today
        r2 == [r1 EXCEPT !.daily_pnl = total_unrealized_pnl,
                         !.max_drawdown_today = drawdown]
        risk_status ==
            IF r2.daily_loss_count >= MAX_DAILY_LOSSES THEN "MAX_DAILY_LOSSES"
            ELSE IF active_trades >= MAX_ACTIVE_TRADES THEN "MAX_TRADES_REACHED"
            ELSE IF drawdown.num * 100 >= MAX_DAILY_DRAWDOWN_PCT * drawdown.den
            THEN "MAX_DRAWDOWN_EXCEEDED"
            ELSE IF IsNearMarketClose(t) THEN "NEAR_MARKET_CLOSE"
            ELSE "NORMAL"
    IN IF \E s \in DOMAIN active_positions : active_positions[s] = NoPnL
       THEN [risk |-> r1, is_trading_allowed |-> FALSE, risk_status |-> "ERROR"]
       ELSE [risk |-> r2,
             is_trading_allowed |-> (risk_status = "NORMAL"),
             risk_status |-> risk_status]

\* RiskManager.check_trading_allowed taking a missing unrealized_pnl as zero
\* instead of failing
CheckTradingAllowedCountsMissingAsZero(r0, active_positions, t) ==
    LET r1 == ResetDailyMetrics(r0, t.day)
        current_capital == GetCurrentCapital(r1)
        active_trades == Cardinality(DOMAIN active_positions)
        known == {s \in DOMAIN active_positions : active_positions[s] /= NoPnL}
        total_unrealized_pnl == SumOver(active_positions, known)
        current_drawdown ==
            Frac(r1.start_of_day_capital - current_capital, r1.start_of_day_capital)
        drawdown ==
            IF current_capital < r1.start_of_day_capital
               /\ FracLess(r1.max_drawdown_today, current_drawdown)
            THEN current_drawdown
            ELSE r1.max_drawdown_today
        r2 == [r1 EXCEPT !.daily_pnl = total_unrealized_pnl,
                         !.max_drawdown_today = drawdown]
        risk_status ==
            IF active_trades >= MAX_ACTIVE_TRADES THEN "MAX_TRADES_REACHED"
            ELSE IF r2.daily_loss_count >= MAX_DAILY_LOSSES THEN "MAX_DAILY_LOSSES"
            ELSE IF drawdown.num * 100 >= MAX_DAILY_DRAWDOWN_PCT * drawdown.den
            THEN "MAX_DRAWDOWN_EXCEEDED"
            ELSE IF IsNearMarketClose(t) THEN "NEAR_MARKET_CLOSE"
            ELSE "NORMAL"
    IN [risk |-> r2,
        is_trading_allowed |-> (risk_status = "NORMAL"),
        risk_status |-> risk_status]

\* RiskManager.check_trading_allowed: [risk, is_trading_allowed, risk_status].
\* active_positions maps each position's symbol to its unrealized P&L.  The
\* sum over a position without one raises after reset_daily_metrics and
\* before daily_pnl is assigned; the except branch answers ERROR.
CheckTradingAllowed(r0, active_positions, t) ==
    LET r1 == ResetDailyMetrics(r0, t.day)
        current_capital == GetCurrentCapital(r1)
        active_trades == Cardinality(DOMAIN active_positions)
        total_unrealized_pnl == SumOver(active_positions, DOMAIN active_positions)
        current_drawdown ==
            Frac(r1.start_of_day_capital - current_capital, r1.start_of_day_capital)
        drawdown ==
            IF current_capital < r1.start_of_day_capital
               /\ FracLess(r1.max_drawdown_today, current_drawdown)
            THEN current_drawdown
            ELSE r1.max_drawdown_today
        r2 == [r1 EXCEPT !.daily_pnl = total_unrealized_pnl,
                         !.max_drawdown_today = drawdown]
        risk_status ==
            IF active_trades >= MAX_ACTIVE_TRADES THEN "MAX_TRADES_REACHED"
            ELSE IF r2.daily_loss_count >= MAX_DAILY_LOSSES THEN "MAX_DAILY_LOSSES"
            ELSE IF drawdown.num * 100 >= MAX_DAILY_DRAWDOWN_PCT * drawdown.den
            THEN "MAX_DRAWDOWN_EXCEEDED"
            ELSE IF IsNearMarketClose(t) THEN "NEAR_MARKET_CLOSE"
            ELSE "NORMAL"
    IN IF \E s \in DOMAIN active_positions : active_positions[s] = NoPnL
       THEN [risk |-> r1, is_trading_allowed |-> FALSE, risk_status |-> "ERROR"]
       ELSE [risk |-> r2,
             is_trading_allowed |-> (risk_status = "NORMAL"),
             risk_status |-> risk_status]

\* RiskManager.record_trade_outcome counting a break-even trade as a loss
RecordTradeOutcomeCountsBreakEven(r, symbol, entry_price, exit_price, quantity, transaction_type, t) ==
    LET pnl == IF transaction_type = "BUY"
               THEN (exit_price - entry_price) * quantity
               ELSE (entry_price - exit_price) * quantity
        trade_record ==
            [symbol |-> symbol, pnl |-> pnl, is_loss |-> (pnl < 0)]
    IN IF entry_price * quantity = 0 THEN r
       ELSE [r EXCEPT !.daily_trades = Append(@, trade_record),
                      !.daily_pnl = @ + pnl,
                      !.daily_loss_count = IF pnl <= 0 THEN @ + 1 ELSE @]

\* RiskManager.record_trade_outcome with a gain taking a loss off the count
RecordTradeOutcomeNetsLosses(r, symbol, entry_price, exit_price, quantity, transaction_type, t) ==
    LET pnl == IF transaction_type = "BUY"
               THEN (exit_price - entry_price) * quantity
               ELSE (entry_price - exit_price) * quantity
        trade_record ==
            [symbol |-> symbol, pnl |-> pnl, is_loss |-> (pnl < 0)]
    IN IF entry_price * quantity = 0 THEN r
       ELSE [r EXCEPT !.daily_trades = Append(@, trade_record),
                      !.daily_pnl = @ + pnl,
                      !.daily_loss_count = IF pnl < 0 THEN @ + 1
                                           ELSE IF pnl > 0 /\ @ > 0 THEN @ - 1
                                           ELSE @]

\* RiskManager.record_trade_outcome taking a loss off daily_loss_count
\* when a gain is recorded
RecordTradeOutcomeGainForgivesLoss(r, symbol, entry_price, exit_price, quantity, transaction_type, t) ==
    LET pnl == IF transaction_type = "BUY"
               THEN (exit_price - entry_price) * quantity
               ELSE (entry_price - exit_price) * quantity
        trade_record ==
            [symbol |-> symbol, pnl |-> pnl, is_loss |-> (pnl < 0)]
    IN IF entry_price * quantity = 0 THEN r
       ELSE [r EXCEPT !.daily_trades = Append(@, trade_record),
                      !.daily_pnl = @ + pnl,
                      !.daily_loss_count = IF pnl < 0 THEN @ + 1
                                           ELSE IF pnl > 0 /\ @ > 0 THEN @ - 1
                                           ELSE @]

\* RiskManager.record_trade_outcome.  The percentage return divides by
\* entry_price * quantity: with a zero product the function raises before it
\* records anything, and its handler returns an empty record.
RecordTradeOutcome(r, symbol, entry_price, exit_price, quantity, transaction_type, t) ==
    LET pnl == IF transaction_type = "BUY"
               THEN (exit_price - entry_price) * quantity
               ELSE (entry_price - exit_price) * quantity
        trade_record ==
            [symbol |-> symbol, pnl |-> pnl, is_loss |-> (pnl < 0)]
    IN IF entry_price * quantity = 0 THEN r
       ELSE [r EXCEPT !.daily_trades = Append(@, trade_record),
                      !.daily_pnl = @ + pnl,
                      !.daily_loss_count = IF pnl < 0 THEN @ + 1 ELSE @]

\* RiskManager.get_current_risk_status
GetCurrentRiskStatus(r, t) ==
    IF r.daily_loss_count >= MAX_DAILY_LOSSES
    THEN "STOPPED - Max daily losses reached"
    ELSE IF r.max_drawdown_today.num * 100
            >= MAX_DAILY_DRAWDOWN_PCT * r.max_drawdown_today.den
    THEN "STOPPED - Max drawdown exceeded"
    ELSE IF IsNearMarketClose(t) THEN "STOPPING - Near market close"
    ELSE IF r.daily_loss_count * 10 >= MAX_DAILY_LOSSES * 7
    THEN "CAUTION - Approaching loss limit"
    ELSE IF r.max_drawdown_today.num * 1000
            >= MAX_DAILY_DRAWDOWN_PCT * 7 * r.max_drawdown_today.den
    THEN "CAUTION - Approaching drawdown limit"
    ELSE "NORMAL - Trading allowed"

(* ------------------------ AIDecisionEngine ------------------------------ *)

\* AIDecisionEngine.validate_decision without its checks of the stop loss
\* and the target against the entry price
ValidateDecisionNoOrdering(d) ==
    IF d.confidence < AI_CONFIDENCE_THRESHOLD_PCT THEN FALSE
    ELSE IF d.decision \in {"BUY", "SELL"}
            /\ d.risk_reward_ratio < MIN_RISK_REWARD_X100 THEN FALSE
    ELSE IF d.position_size > MAX_CAPITAL_PER_TRADE_PCT * 100 THEN FALSE
    ELSE TRUE

\* AIDecisionEngine.validate_decision
ValidateDecision(d) ==
    IF d.confidence < AI_CONFIDENCE_THRESHOLD_PCT THEN FALSE
    ELSE IF d.decision \in {"BUY", "SELL"}
            /\ d.risk_reward_ratio < MIN_RISK_REWARD_X100 THEN FALSE
    ELSE IF d.position_size > MAX_CAPITAL_PER_TRADE_PCT * 100 THEN FALSE
    ELSE IF d.decision = "BUY"
    THEN ~(d.stop_loss >= d.entry_price) /\ ~(d.target_price <= d.entry_price)
    ELSE IF d.decision = "SELL"
    THEN ~(d.stop_loss <= d.entry_price) /\ ~(d.target_price >= d.entry_price)
    ELSE TRUE

\* the should_trade of AIDecisionEngine.make_trading_decision
ShouldTrade(d) == ValidateDecision(d) /\ d.decision \in {"BUY", "SELL"}

(* ------------------------------ broker ---------------------------------- *)

\* What the broker's calls can answer.  An accepted bracket order is filled:
\* the broker holds a position from then on.
OrderOutcomes == {"filled", "rejected"}
ExitOutcomes == {"ok", "fail", "raise"}
ForceExitOutcomes == {"ok", "fail", "raise"}

\* broker.exit_position: succeeds only for a position the broker holds, and
\* then closes it; it fails by answering so or by raising
BrokerExitPosition(held, symbol, outcome) ==
    IF symbol \in held /\ outcome = "ok"
    THEN [ok |-> TRUE, positions |-> held \ {symbol}]
    ELSE [ok |-> FALSE, positions |-> held]

\* broker.place_bracket_order
BrokerPlaceBracketOrder(held, symbol, outcome) ==
    [ok |-> (outcome /= "rejected"),
     positions |-> IF outcome = "filled" THEN held \cup {symbol} ELSE held]

\* broker.force_exit_all_positions
BrokerForceExitAllPositions(held, outcome) ==
    IF outcome = "ok" THEN {} ELSE held

(* ----------------------------- TradeLogger ------------------------------ *)

Call(fn, sym, arg, res) == [fn |-> fn, sym |-> sym, arg |-> arg, res |-> res]

\* Whether the trade logger can store its record: when it cannot, its
\* function catches the error and returns an "ERROR_..." id, or False.
LogOutcomes == {"ok", "fail"}

\* TradeLogger.log_trade_decision
LogTradeDecision(w, symbol, id, logged) ==
    [w EXCEPT !.c = Append(@, Call("log_trade_decision", symbol, id, logged))]

\* TradeLogger.log_trade_execution
LogTradeExecution(w, symbol, id, logged) ==
    [w EXCEPT !.c = Append(@, Call("log_trade_execution", symbol, id, logged))]

\* TradeLogger.log_trade_exit
LogTradeExit(w, symbol, reason, logged) ==
    [w EXCEPT !.c = Append(@, Call("log_trade_exit", symbol, reason, logged))]

(* ----------------------------- StockPoller ------------------------------ *)

NoEval ==
    [symbol |-> "", transaction_type |-> "", price |-> 0, stop_loss |-> 0,
     target_price |-> 0, held |-> 0, deadline |-> FALSE, reason |-> ""]

\* riskResult: the function called, its answer, and what it found when it
\* was called: whether the date was a new one to the risk manager, and the
\* loss count it held
NoRisk == [fn |-> "", allowed |-> FALSE, status |-> "", new_day |-> FALSE,
           losses_before |-> 0]

RiskCheck(fn, allowed, status) ==
    [fn |-> fn, allowed |-> allowed, status |-> status,
     new_day |-> (clock.day /= risk.last_reset_date),
     losses_before |-> risk.daily_loss_count]

\* tickInfo: day is the date of the last loop iteration and screen_failed
\* the date of the last daily_market_screening if it selected nothing (-1
\* otherwise); the other fields tell what the step just taken did, if it
\* started a loop iteration (screen_retry: it ran the screening again after
\* one that selected nothing on the same day)
NoTick(day) ==
    [day |-> day, ticked |-> FALSE, in_market |-> FALSE,
     date_changed |-> FALSE, reset |-> FALSE, force_ran |-> FALSE,
     screening |-> FALSE, screen_retry |-> FALSE, screen_failed |-> -1]

\* The state the operations of the poller work on: the poller's fields (p),
\* the risk manager's (r), the broker's positions (b), and what the step has
\* called (c) and evaluated (e) so far.
World == [p |-> poller, r |-> risk, b |-> positions, c |-> <<>>, e |-> NoEval]

MarketOpenSecs == MARKET_OPEN_HOUR * 3600 + MARKET_OPEN_MINUTE * 60
MarketCloseSecs == MARKET_CLOSE_HOUR * 3600 + MARKET_CLOSE_MINUTE * 60
ForceExitSecs == FORCE_EXIT_HOUR * 3600 + FORCE_EXIT_MINUTE * 60

\* StockPoller.is_market_hours without its bounds
IsMarketHoursAlways(t) == TRUE

\* StockPoller.is_market_hours
IsMarketHours(t) == MarketOpenSecs <= t.tod /\ t.tod <= MarketCloseSecs

\* StockPoller.should_force_exit
ShouldForceExit(p, t) == t.tod >= ForceExitSecs /\ ~p.force_exit_triggered

\* the keys of monitored_stocks in the order screening inserted them
MonitoredOrder(p) ==
    SelectSeq(SymbolOrder, LAMBDA s : s \in DOMAIN p.monitored_stocks)

\* StockPoller.daily_market_screening marking the day as screened even
\* when nothing was selected
DailyMarketScreeningDoneOnFailure(w, n, t) ==
    LET found == {SymbolOrder[i] : i \in 1..n}
        fresh == [s \in found |-> [is_active_trade |-> FALSE]]
        w1 == [w EXCEPT !.c = Append(@, Call("daily_market_screening", "", "", ""))]
    IN [w1 EXCEPT
          !.p.monitored_stocks =
              [s \in DOMAIN @ \cup found |->
                  IF s \in found THEN fresh[s] ELSE @[s]],
          !.p.daily_screening_done = TRUE,
          !.p.last_screening_time = IF n = 0 THEN @ ELSE t]

\* StockPoller.daily_market_screening; n is the number of stocks
\* screen_top_stocks returned (none when it failed)
DailyMarketScreening(w, n, t) ==
    LET found == {SymbolOrder[i] : i \in 1..n}
        fresh == [s \in found |-> [is_active_trade |-> FALSE]]
        w1 == [w EXCEPT !.c = Append(@, Call("daily_market_screening", "", "", ""))]
    IN IF n = 0 THEN w1
       ELSE [w1 EXCEPT
               !.p.monitored_stocks =
                   [s \in DOMAIN @ \cup found |->
                       IF s \in found THEN fresh[s] ELSE @[s]],
               !.p.daily_screening_done = TRUE,
               !.p.last_screening_time = t]

\* the quantity StockPoller.execute_trade_decision orders
OrderQuantity(d) ==
    TruncDiv(d.position_size * INITIAL_CAPITAL, 10000 * d.entry_price)

\* StockPoller.execute_trade_decision giving up a filled order when the
\* trade logger fails
ExecuteTradeDecisionNeedsLog(w, symbol, id, outcome, logged, t) ==
    LET d == Decision(id)
        order == BrokerPlaceBracketOrder(w.b, symbol, outcome)
        active_trade ==
            [entry_time |-> t, entry_price |-> d.entry_price,
             stop_loss |-> d.stop_loss, target_price |-> d.target_price,
             quantity |-> OrderQuantity(d), transaction_type |-> d.decision,
             current_price |-> d.entry_price, unrealized_pnl |-> 0]
        w1 == [w EXCEPT !.c = Append(@, Call("place_bracket_order", symbol, id,
                                              IF order.ok THEN "ok" ELSE "rejected")),
                        !.b = order.positions]
    IN IF ~order.ok THEN w1
       ELSE IF logged /= "ok" THEN LogTradeExecution(w1, symbol, id, logged)
       ELSE [LogTradeExecution(w1, symbol, id, logged) EXCEPT
               !.p.active_trades =
                   [s \in DOMAIN @ \cup {symbol} |->
                       IF s = symbol THEN active_trade ELSE @[s]],
               !.p.active_order =
                   IF symbol \in DOMAIN w.p.active_trades THEN @
                   ELSE Append(@, symbol),
               !.p.monitored_stocks =
                   [s \in DOMAIN @ |->
                       IF s = symbol THEN [@[s] EXCEPT !.is_active_trade = TRUE]
                       ELSE @[s]]]

\* StockPoller.execute_trade_decision leaving the stock's is_active_trade
\* flag as it is
ExecuteTradeDecisionNoFlag(w, symbol, id, outcome, logged, t) ==
    LET d == Decision(id)
        order == BrokerPlaceBracketOrder(w.b, symbol, outcome)
        active_trade ==
            [entry_time |-> t, entry_price |-> d.entry_price,
             stop_loss |-> d.stop_loss, target_price |-> d.target_price,
             quantity |-> OrderQuantity(d), transaction_type |-> d.decision,
             current_price |-> d.entry_price, unrealized_pnl |-> 0]
        w1 == [w EXCEPT !.c = Append(@, Call("place_bracket_order", symbol, id,
                                              IF order.ok THEN "ok" ELSE "rejected")),
                        !.b = order.positions]
    IN IF ~order.ok THEN w1
       ELSE [LogTradeExecution(w1, symbol, id, logged) EXCEPT
               !.p.active_trades =
                   [s \in DOMAIN @ \cup {symbol} |->
                       IF s = symbol THEN active_trade ELSE @[s]],
               !.p.active_order =
                   IF symbol \in DOMAIN w.p.active_trades THEN @
                   ELSE Append(@, symbol)]

\* StockPoller.execute_trade_decision
ExecuteTradeDecision(w, symbol, id, outcome, logged, t) ==
    LET d == Decision(id)
        order == BrokerPlaceBracketOrder(w.b, symbol, outcome)
        active_trade ==
            [entry_time |-> t, entry_price |-> d.entry_price,
             stop_loss |-> d.stop_loss, target_price |-> d.target_price,
             quantity |-> OrderQuantity(d), transaction_type |-> d.decision,
             current_price |-> d.entry_price, unrealized_pnl |-> 0]
        w1 == [w EXCEPT !.c = Append(@, Call("place_bracket_order", symbol, id,
                                              IF order.ok THEN "ok" ELSE "rejected")),
                        !.b = order.positions]
    IN IF ~order.ok THEN w1
       ELSE [LogTradeExecution(w1, symbol, id, logged) EXCEPT
               !.p.active_trades =
                   [s \in DOMAIN @ \cup {symbol} |->
                       IF s = symbol THEN active_trade ELSE @[s]],
               !.p.active_order =
                   IF symbol \in DOMAIN w.p.active_trades THEN @
                   ELSE Append(@, symbol),
               !.p.monitored_stocks =
                   [s \in DOMAIN @ |->
                       IF s = symbol THEN [@[s] EXCEPT !.is_active_trade = TRUE]
                       ELSE @[s]]]

\* StockPoller.analyze_and_decide; fetch tells whether get_current_price
\* returned or raised, id is the oracle's decision
AnalyzeAndDecide(w, symbol, fetch, id, outcome, logged, t) ==
    IF fetch = "raise" THEN w
    ELSE LET w1 == LogTradeDecision(w, symbol, id, logged)
         IN IF ShouldTrade(Decision(id))
            THEN ExecuteTradeDecision(w1, symbol, id, outcome, logged, t)
            ELSE w1

\* StockPoller.exit_active_trade removing the trade whether the broker has
\* closed the position or not
ExitActiveTradeDropsOnFailure(w, symbol, reason, outcome, logged, t) ==
    LET trade == w.p.active_trades[symbol]
        answer == IF Len(w.r.daily_trades) < MaxDailyTrades THEN outcome ELSE "fail"
        exit == BrokerExitPosition(w.b, symbol, answer)
        w1 == [w EXCEPT !.c = Append(@, Call("exit_position", symbol, reason,
                                              IF exit.ok THEN "ok"
                                              ELSE IF answer = "raise" THEN "raise"
                                              ELSE "fail")),
                        !.b = exit.positions,
                        !.p.active_trades = Restrict(@, DOMAIN @ \ {symbol}),
                        !.p.active_order = Remove(@, symbol),
                        !.p.monitored_stocks =
                            [s \in DOMAIN @ |->
                                IF s = symbol THEN [@[s] EXCEPT !.is_active_trade = FALSE]
                                ELSE @[s]]]
    IN IF ~exit.ok THEN w1
       ELSE [LogTradeExit(w1, symbol, reason, logged) EXCEPT
               !.r = RecordTradeOutcome(@, symbol, trade.entry_price,
                         trade.current_price, trade.quantity,
                         trade.transaction_type, t)]

\* StockPoller.exit_active_trade with the monitored stock's flag left set
ExitActiveTradeKeepFlag(w, symbol, reason, outcome, logged, t) ==
    LET trade == w.p.active_trades[symbol]
        answer == IF Len(w.r.daily_trades) < MaxDailyTrades THEN outcome ELSE "fail"
        exit == BrokerExitPosition(w.b, symbol, answer)
        w1 == [w EXCEPT !.c = Append(@, Call("exit_position", symbol, reason,
                                              IF exit.ok THEN "ok"
                                              ELSE IF answer = "raise" THEN "raise"
                                              ELSE "fail")),
                        !.b = exit.positions]
    IN IF ~exit.ok THEN w1
       ELSE [LogTradeExit(w1, symbol, reason, logged) EXCEPT
               !.r = RecordTradeOutcome(@, symbol, trade.entry_price,
                         trade.current_price, trade.quantity,
                         trade.transaction_type, t),
               !.p.active_trades = Restrict(@, DOMAIN @ \ {symbol}),
               !.p.active_order = Remove(@, symbol)]

\* StockPoller.exit_active_trade
ExitActiveTrade(w, symbol, reason, outcome, logged, t) ==
    LET trade == w.p.active_trades[symbol]
        answer == IF Len(w.r.daily_trades) < MaxDailyTrades THEN outcome ELSE "fail"
        exit == BrokerExitPosition(w.b, symbol, answer)
        w1 == [w EXCEPT !.c = Append(@, Call("exit_position", symbol, reason,
                                              IF exit.ok THEN "ok"
                                              ELSE IF answer = "raise" THEN "raise"
                                              ELSE "fail")),
                        !.b = exit.positions]
    IN IF ~exit.ok THEN w1
       ELSE [LogTradeExit(w1, symbol, reason, logged) EXCEPT
               !.r = RecordTradeOutcome(@, symbol, trade.entry_price,
                         trade.current_price, trade.quantity,
                         trade.transaction_type, t),
               !.p.active_trades = Restrict(@, DOMAIN @ \ {symbol}),
               !.p.active_order = Remove(@, symbol),
               !.p.monitored_stocks =
                   [s \in DOMAIN @ |->
                       IF s = symbol THEN [@[s] EXCEPT !.is_active_trade = FALSE]
                       ELSE @[s]]]

\* the exit condition StockPoller.monitor_active_trade finds first
ExitReason(p, trade, current_price, t) ==
    IF trade.transaction_type = "BUY" /\ current_price <= trade.stop_loss
    THEN "STOP_LOSS"
    ELSE IF trade.transaction_type = "SELL" /\ current_price >= trade.stop_loss
    THEN "STOP_LOSS"
    ELSE IF trade.transaction_type = "BUY" /\ current_price >= trade.target_price
    THEN "TARGET"
    ELSE IF trade.transaction_type = "SELL" /\ current_price <= trade.target_price
    THEN "TARGET"
    ELSE IF SecondsBetween(t, trade.entry_time) > MAX_HOLD_SECONDS
    THEN "TIME_LIMIT"
    ELSE IF ShouldForceExit(p, t) THEN "FORCE_EXIT"
    ELSE "NONE"

\* StockPoller.monitor_active_trade going on with a missing price as with
\* any other
MonitorActiveTradeUsesMissingPrice(w, symbol, current_price, outcome, logged, t) ==
    LET old == w.p.active_trades[symbol]
        trade ==
            [old EXCEPT
               !.current_price = current_price,
               !.unrealized_pnl =
                   IF old.transaction_type = "BUY"
                   THEN (current_price - old.entry_price) * old.quantity
                   ELSE (old.entry_price - current_price) * old.quantity]
        reason == ExitReason(w.p, trade, current_price, t)
        w1 == [w EXCEPT !.c = Append(@, Call("monitor_active_trade", symbol, "",
                                             current_price))]
        w2 == [w1 EXCEPT
                 !.p.active_trades[symbol] = trade,
                 !.e = [symbol |-> symbol,
                        transaction_type |-> trade.transaction_type,
                        price |-> current_price,
                        stop_loss |-> trade.stop_loss,
                        target_price |-> trade.target_price,
                        held |-> SecondsBetween(t, trade.entry_time),
                        deadline |-> (t.tod >= ForceExitSecs),
                        reason |-> reason]]
    IN IF reason /= "NONE"
       THEN ExitActiveTrade(w2, symbol, reason, outcome, logged, t)
       ELSE w2

\* StockPoller.monitor_active_trade; current_price 0 is a missing price.
\* The call and the price it got are recorded.
MonitorActiveTrade(w, symbol, current_price, outcome, logged, t) ==
    LET old == w.p.active_trades[symbol]
        trade ==
            [old EXCEPT
               !.current_price = current_price,
               !.unrealized_pnl =
                   IF old.transaction_type = "BUY"
                   THEN (current_price - old.entry_price) * old.quantity
                   ELSE (old.entry_price - current_price) * old.quantity]
        reason == ExitReason(w.p, trade, current_price, t)
        w1 == [w EXCEPT !.c = Append(@, Call("monitor_active_trade", symbol, "",
                                             current_price))]
        w2 == [w1 EXCEPT
                 !.p.active_trades[symbol] = trade,
                 !.e = [symbol |-> symbol,
                        transaction_type |-> trade.transaction_type,
                        price |-> current_price,
                        stop_loss |-> trade.stop_loss,
                        target_price |-> trade.target_price,
                        held |-> SecondsBetween(t, trade.entry_time),
                        deadline |-> (t.tod >= ForceExitSecs),
                        reason |-> reason]]
    IN IF current_price = 0 THEN w1
       ELSE IF reason /= "NONE"
       THEN ExitActiveTrade(w2, symbol, reason, outcome, logged, t)
       ELSE w2

\* the loop of StockPoller.force_exit_all_trades over the active trades
RECURSIVE ExitEach(_, _, _, _, _)
ExitEach(w, symbols, outcomes, logged, t) ==
    IF symbols = <<>> THEN w
    ELSE ExitEach(ExitActiveTrade(w, Head(symbols), "MARKET_CLOSE",
                                  outcomes[Head(symbols)], logged, t),
                  Tail(symbols), outcomes, logged, t)

\* StockPoller.force_exit_all_trades without the check of force_exit_triggered
ForceExitAllTradesUnguarded(w, outcomes, blanket, logged, t) ==
    LET w1 == ExitEach(w, w.p.active_order, outcomes, logged, t)
        w2 == [w1 EXCEPT
                 !.c = Append(@, Call("force_exit_all_positions", "", "", blanket)),
                 !.b = BrokerForceExitAllPositions(@, blanket)]
    IN IF blanket = "raise" THEN w2
       ELSE [w2 EXCEPT !.p.force_exit_triggered = TRUE]

\* StockPoller.force_exit_all_trades
ForceExitAllTrades(w, outcomes, blanket, logged, t) ==
    IF w.p.force_exit_triggered THEN w
    ELSE LET w1 == ExitEach(w, w.p.active_order, outcomes, logged, t)
             w2 == [w1 EXCEPT
                      !.c = Append(@, Call("force_exit_all_positions", "", "", blanket)),
                      !.b = BrokerForceExitAllPositions(@, blanket)]
         IN IF blanket = "raise" THEN w2
            ELSE [w2 EXCEPT !.p.force_exit_triggered = TRUE]

\* StockPoller.reset_daily_state
ResetDailyState(w, t) ==
    [w EXCEPT !.c = Append(@, Call("reset_daily_state", "", "", "")),
              !.p.daily_screening_done = FALSE,
              !.p.force_exit_triggered = FALSE,
              !.p.monitored_stocks = EmptyMap,
              !.p.active_trades = EmptyMap,
              !.p.active_order = <<>>,
              !.r = ResetDailyMetrics(@, t.day)]

(* ------------------------------ actions --------------------------------- *)

\* The start() tasks of the TradingBot that can be created.
Tasks == 1..MaxStarts

\* TradingBot and the poller's loop flag before the first start: no task
\* has been created.  A task is at "none" (not created), "init" (start()
\* awaits initialize_components), "loop" (run_continuous_polling in the
\* sleep that ends an iteration, before the test of is_running that starts
\* the next), "screening", "active" or "inactive" (it awaits inside
\* daily_market_screening, poll_active_trades or poll_inactive_stocks), or
\* "done".  stopped holds the tasks whose loop was running when a shutdown
\* was requested, swept tells whether the last shutdown's force exit of all
\* positions succeeded.
NotStarted ==
    [is_running |-> FALSE, poller_is_running |-> FALSE,
     tasks |-> [t \in Tasks |-> "none"],
     stopped |-> {}, swept |-> FALSE]


Init ==
    /\ clock = [day |-> 0, tod |-> TimesOfDay[1]]
    /\ poller = [monitored_stocks |-> EmptyMap,
                 active_trades |-> EmptyMap,
                 active_order |-> <<>>,
                 last_screening_time |-> NoTime,
                 last_inactive_poll |-> NoTime,
                 last_active_poll |-> NoTime,
                 daily_screening_done |-> FALSE,
                 force_exit_triggered |-> FALSE]
    /\ risk = [daily_trades |-> <<>>,
               daily_pnl |-> 0,
               daily_loss_count |-> 0,
               max_drawdown_today |-> [num |-> 0, den |-> 1],
               start_of_day_capital |-> INITIAL_CAPITAL,
               last_reset_date |-> 0]
    /\ positions = {}
    /\ pc = "sleep"
    /\ now = NoTime
    /\ queue = <<>>
    /\ calls = <<>>
    /\ lastEval = NoEval
    /\ riskResult = NoRisk
    /\ tickInfo = NoTick(-1)
    /\ bot = NotStarted

\* tickInfo after a step that is not the start of a loop iteration
Quiet ==
    tickInfo' = [NoTick(tickInfo.day) EXCEPT !.screen_failed = tickInfo.screen_failed]

\* writes a world back to the variables
Commit(w) ==
    /\ poller' = w.p
    /\ risk' = w.r
    /\ positions' = w.b
    /\ calls' = w.c
    /\ lastEval' = w.e

\* A loop iteration, or a call from outside the loop, is over and the loop
\* sleeps on: what the last step called and evaluated is forgotten.
Sleep ==
    /\ pc = "end"
    /\ pc' = "sleep"
    /\ calls' = <<>>
    /\ lastEval' = NoEval
    /\ riskResult' = NoRisk
    /\ Quiet
    /\ UNCHANGED <<clock, poller, risk, positions, now, queue, bot>>

\* Time passes within the day: while the loop sleeps, or while the loop
\* awaits the first price of an active-trades pass.
AdvanceClock ==
    /\ \/ pc = "sleep"
       \/ pc = "active" /\ queue = poller.active_order
    /\ \E i \in 1..(Len(TimesOfDay) - 1) :
          /\ clock.tod = TimesOfDay[i]
          /\ clock' = [clock EXCEPT !.tod = TimesOfDay[i + 1]]
    /\ calls' = <<>>
    /\ lastEval' = NoEval
    /\ riskResult' = NoRisk
    /\ Quiet
    /\ UNCHANGED <<poller, risk, positions, pc, now, queue, bot>>

\* Midnight passes while the loop sleeps, after the last sampled instant
\* of the day.
NextDay ==
    /\ pc = "sleep"
    /\ clock.tod >= TimesOfDay[Len(TimesOfDay)]
    /\ clock.day < MaxDay
    /\ clock' = [day |-> clock.day + 1, tod |-> TimesOfDay[1]]
    /\ calls' = <<>>
    /\ lastEval' = NoEval
    /\ riskResult' = NoRisk
    /\ Quiet
    /\ UNCHANGED <<poller, risk, positions, pc, now, queue, bot>>

\* an iteration of the loop that runs daily_market_screening whatever
\* daily_screening_done says
RunsScreeningAlways(p) == TRUE

\* whether an iteration of the loop runs daily_market_screening
RunsScreening(p) == ~p.daily_screening_done

\* One iteration of StockPoller.run_continuous_polling, from its top to the
\* start of poll_active_trades: date rollover, market hours, force exit,
\* daily screening and the snapshot of the active trades to monitor.
Tick ==
    /\ pc = "sleep"
    /\ LET t == clock
           rollover == /\ poller.last_screening_time /= NoTime
                       /\ t.day > poller.last_screening_time.day
           w1 == IF rollover THEN ResetDailyState(World, t) ELSE World
           in_market == IsMarketHours(t)
           force == in_market /\ ShouldForceExit(w1.p, t)
           screening == in_market /\ ~force /\ RunsScreening(w1.p)
       IN \E outcomes \in [IF force THEN DOMAIN w1.p.active_trades ELSE {} -> ExitOutcomes],
             blanket \in (IF force THEN ForceExitOutcomes ELSE {"ok"}),
             logged \in (IF force /\ DOMAIN w1.p.active_trades /= {}
                         THEN LogOutcomes ELSE {"ok"}),
             n \in (IF screening THEN ScreeningResults ELSE {0}) :
             LET w2 == IF force
                       THEN ForceExitAllTrades(w1, outcomes, blanket, logged, t)
                       ELSE w1
                 w3 == IF screening THEN DailyMarketScreening(w2, n, t) ELSE w2
                 active_due ==
                     \/ w3.p.last_active_poll = NoTime
                     \/ SecondsBetween(t, w3.p.last_active_poll) >= ACTIVE_POLL_INTERVAL
                 run_active == /\ in_market /\ ~force /\ active_due
                               /\ DOMAIN w3.p.active_trades /= {}
             IN /\ Commit(w3)
                /\ now' = IF ~in_market \/ force THEN NoTime ELSE t
                /\ riskResult' = NoRisk
                /\ queue' = IF run_active THEN w3.p.active_order ELSE <<>>
                /\ pc' = IF ~in_market \/ force THEN "end"
                         ELSE IF run_active THEN "active"
                         ELSE "inactive_start"
                /\ tickInfo' =
                       [day |-> t.day,
                        ticked |-> TRUE,
                        in_market |-> in_market,
                        date_changed |-> (tickInfo.day >= 0 /\ t.day > tickInfo.day),
                        reset |-> rollover,
                        force_ran |-> force,
                        screening |-> screening,
                        screen_retry |->
                            screening /\ tickInfo.screen_failed = t.day,
                        screen_failed |->
                            IF screening THEN (IF n = 0 THEN t.day ELSE -1)
                            ELSE IF tickInfo.screen_failed = t.day THEN t.day
                            ELSE -1]
    /\ UNCHANGED <<clock, bot>>

\* One round of the loop of StockPoller.poll_active_trades; the pass ends,
\* and last_active_poll is set, after the last trade of the snapshot.
MonitorStep ==
    /\ pc = "active"
    /\ queue /= <<>>
    /\ \E current_price \in Prices, outcome \in ExitOutcomes, logged \in LogOutcomes :
          LET w == MonitorActiveTrade(World, Head(queue), current_price, outcome,
                                      logged, clock)
              done == Tail(queue) = <<>>
          IN /\ Commit(IF done THEN [w EXCEPT !.p.last_active_poll = clock] ELSE w)
             /\ queue' = Tail(queue)
             /\ pc' = IF done THEN "inactive_start" ELSE "active"
    /\ riskResult' = NoRisk
    /\ Quiet
    /\ UNCHANGED <<clock, now, bot>>

\* the monitored stocks a pass still has to analyse when it skips none
SkipActiveNever(p, symbols) == symbols

\* the monitored stocks a pass still has to analyse: those of the snapshot
\* that are not an active trade when their turn comes
RECURSIVE SkipActive(_, _)
SkipActive(p, symbols) ==
    IF symbols = <<>> THEN <<>>
    ELSE IF p.monitored_stocks[Head(symbols)].is_active_trade
    THEN SkipActive(p, Tail(symbols))
    ELSE symbols

\* StockPoller.poll_inactive_stocks run before poll_active_trades: when it
\* has nothing to poll, the active trades are monitored next.
PollInactiveStocksBeforeActive ==
    /\ pc = "inactive_start"
    /\ LET due == \/ poller.last_inactive_poll = NoTime
                  \/ SecondsBetween(now, poller.last_inactive_poll) >= INACTIVE_POLL_INTERVAL
           polls == due /\ DOMAIN poller.monitored_stocks /= {}
       IN \E pnl \in PositionReports(IF polls THEN positions ELSE {}) :
             LET account == CheckTradingAllowed(risk, pnl, clock)
                 todo == SkipActive(poller, MonitoredOrder(poller))
                 w1 == [World EXCEPT
                          !.c = Append(@, Call("check_trading_allowed", "", "",
                                                account.risk_status)),
                          !.r = account.risk]
             IN IF ~polls
                THEN /\ Commit(World)
                     /\ riskResult' = NoRisk
                     /\ queue' = poller.active_order
                     /\ pc' = IF poller.active_order = <<>> THEN "end" ELSE "active"
                ELSE /\ riskResult' = RiskCheck("check_trading_allowed",
                                                account.is_trading_allowed,
                                                account.risk_status)
                     /\ IF ~account.is_trading_allowed
                        THEN /\ Commit(w1)
                             /\ queue' = <<>>
                             /\ pc' = "end"
                        ELSE IF todo = <<>>
                        THEN /\ Commit([w1 EXCEPT !.p.last_inactive_poll = clock])
                             /\ queue' = <<>>
                             /\ pc' = "end"
                        ELSE /\ Commit(w1)
                             /\ queue' = todo
                             /\ pc' = "inactive"
    /\ now' = IF pc' = "end" THEN NoTime ELSE now
    /\ Quiet
    /\ UNCHANGED <<clock, bot>>

\* StockPoller.poll_inactive_stocks entered in every iteration, whatever
\* the time since last_inactive_poll.
PollInactiveStocksEveryTick ==
    /\ pc = "inactive_start"
    /\ LET due == TRUE
           polls == due /\ DOMAIN poller.monitored_stocks /= {}
       IN \E pnl \in PositionReports(IF polls THEN positions ELSE {}) :
             LET account == CheckTradingAllowed(risk, pnl, clock)
                 todo == SkipActive(poller, MonitoredOrder(poller))
                 w1 == [World EXCEPT
                          !.c = Append(@, Call("check_trading_allowed", "", "",
                                                account.risk_status)),
                          !.r = account.risk]
             IN IF ~polls
                THEN /\ Commit(World)
                     /\ riskResult' = NoRisk
                     /\ queue' = <<>>
                     /\ pc' = "end"
                ELSE /\ riskResult' = RiskCheck("check_trading_allowed",
                                                account.is_trading_allowed,
                                                account.risk_status)
                     /\ IF ~account.is_trading_allowed
                        THEN /\ Commit(w1)
                             /\ queue' = <<>>
                             /\ pc' = "end"
                        ELSE IF todo = <<>>
                        THEN /\ Commit([w1 EXCEPT !.p.last_inactive_poll = clock])
                             /\ queue' = <<>>
                             /\ pc' = "end"
                        ELSE /\ Commit(w1)
                             /\ queue' = todo
                             /\ pc' = "inactive"
    /\ now' = IF pc' = "end" THEN NoTime ELSE now
    /\ Quiet
    /\ UNCHANGED <<clock, bot>>

\* StockPoller.poll_inactive_stocks up to its loop, entered when the
\* inactive interval has passed since last_inactive_poll.
PollInactiveStocks ==
    /\ pc = "inactive_start"
    /\ LET due == \/ poller.last_inactive_poll = NoTime
                  \/ SecondsBetween(now, poller.last_inactive_poll) >= INACTIVE_POLL_INTERVAL
           polls == due /\ DOMAIN poller.monitored_stocks /= {}
       IN \E pnl \in PositionReports(IF polls THEN positions ELSE {}) :
             LET account == CheckTradingAllowed(risk, pnl, clock)
                 todo == SkipActive(poller, MonitoredOrder(poller))
                 w1 == [World EXCEPT
                          !.c = Append(@, Call("check_trading_allowed", "", "",
                                                account.risk_status)),
                          !.r = account.risk]
             IN IF ~polls
                THEN /\ Commit(World)
                     /\ riskResult' = NoRisk
                     /\ queue' = <<>>
                     /\ pc' = "end"
                ELSE /\ riskResult' = RiskCheck("check_trading_allowed",
                                                account.is_trading_allowed,
                                                account.risk_status)
                     /\ IF ~account.is_trading_allowed
                        THEN /\ Commit(w1)
                             /\ queue' = <<>>
                             /\ pc' = "end"
                        ELSE IF todo = <<>>
                        THEN /\ Commit([w1 EXCEPT !.p.last_inactive_poll = clock])
                             /\ queue' = <<>>
                             /\ pc' = "end"
                        ELSE /\ Commit(w1)
                             /\ queue' = todo
                             /\ pc' = "inactive"
    /\ now' = IF pc' = "end" THEN NoTime ELSE now
    /\ Quiet
    /\ UNCHANGED <<clock, bot>>

\* One round of the loop of StockPoller.poll_inactive_stocks in which a
\* failure for a stock (no price, or an order the broker rejects) leaves
\* the loop: the stocks after it are not analysed in this pass.
AnalyzeStepAbortsOnFailure ==
    /\ pc = "inactive"
    /\ queue /= <<>>
    /\ \E fetch \in {"ok", "raise"}, id \in DecisionsFor(Head(queue)),
          outcome \in OrderOutcomes, logged \in LogOutcomes :
          LET w == AnalyzeAndDecide(World, Head(queue), fetch, id, outcome,
                                    logged, clock)
              failed == \/ fetch = "raise"
                        \/ \E i \in 1..Len(w.c) : w.c[i].res = "rejected"
              todo == IF failed THEN <<>> ELSE SkipActive(w.p, Tail(queue))
              done == todo = <<>>
          IN /\ Commit(IF done /\ ~failed
                       THEN [w EXCEPT !.p.last_inactive_poll = clock] ELSE w)
             /\ queue' = todo
             /\ pc' = IF done THEN "end" ELSE "inactive"
             /\ now' = IF done THEN NoTime ELSE now
    /\ riskResult' = NoRisk
    /\ Quiet
    /\ UNCHANGED <<clock, bot>>

\* One round of the loop of StockPoller.poll_inactive_stocks; the pass
\* ends, and last_inactive_poll is set, after the last stock of the snapshot.
AnalyzeStep ==
    /\ pc = "inactive"
    /\ queue /= <<>>
    /\ \E fetch \in {"ok", "raise"}, id \in DecisionsFor(Head(queue)),
          outcome \in OrderOutcomes, logged \in LogOutcomes :
          LET w == AnalyzeAndDecide(World, Head(queue), fetch, id, outcome,
                                    logged, clock)
              todo == SkipActive(w.p, Tail(queue))
              done == todo = <<>>
          IN /\ Commit(IF done THEN [w EXCEPT !.p.last_inactive_poll = clock] ELSE w)
             /\ queue' = todo
             /\ pc' = IF done THEN "end" ELSE "inactive"
             /\ now' = IF done THEN NoTime ELSE now
    /\ riskResult' = NoRisk
    /\ Quiet
    /\ UNCHANGED <<clock, bot>>

\* StockPoller.force_exit_all_trades called once more, from outside the
\* loop and while the loop sleeps, after force_exit_triggered has been set.
ForceExitCall ==
    /\ pc = "sleep"
    /\ poller.force_exit_triggered
    /\ Commit([ForceExitAllTrades(World, [s \in DOMAIN poller.active_trades |-> "ok"],
                                  "ok", "ok", clock) EXCEPT
                  !.c = <<Call("force_exit_all_trades", "", "", "")>> \o @])
    /\ riskResult' = NoRisk
    /\ pc' = "end"
    /\ Quiet
    /\ UNCHANGED <<clock, now, queue, bot>>

\* RiskManager.get_risk_summary called while the loop sleeps (the status
\* query of the bot).
GetRiskSummary ==
    /\ pc = "sleep"
    /\ LET r == ResetDailyMetrics(risk, clock.day)
       IN /\ risk' = r
          /\ riskResult' = RiskCheck("get_risk_summary", TRUE,
                                     GetCurrentRiskStatus(r, clock))
    /\ calls' = <<Call("get_risk_summary", "", "", "")>>
    /\ lastEval' = NoEval
    /\ pc' = "end"
    /\ Quiet
    /\ UNCHANGED <<clock, poller, positions, now, queue, bot>>

\* RiskManager.validate_trade_risk called while the loop sleeps.
ValidateTradeRiskCall ==
    /\ pc = "sleep"
    /\ \E id \in {"BUY", "LOWRR"} :
          LET d == Decision(id)
              r == ResetDailyMetrics(risk, clock.day)
              m == ValidateTradeRisk(r, d.entry_price, d.stop_loss, d.target_price)
          IN /\ risk' = r
             /\ riskResult' = RiskCheck("validate_trade_risk", m.is_within_limits,
                                        m.rejection_reason)
             /\ calls' = <<Call("validate_trade_risk", "", id,
                                IF m.is_within_limits THEN "ok" ELSE "rejected")>>
    /\ lastEval' = NoEval
    /\ pc' = "end"
    /\ Quiet
    /\ UNCHANGED <<clock, poller, positions, now, queue, bot>>

Next ==
    \/ Sleep
    \/ AdvanceClock
    \/ NextDay
    \/ Tick
    \/ MonitorStep
    \/ PollInactiveStocks
    \/ AnalyzeStep
    \/ ForceExitCall
    \/ GetRiskSummary
    \/ ValidateTradeRiskCall

Spec == Init /\ [][Next]_vars

(* ------------------- the loop alone, round the clock ------------------- *)

\* the instant sampled after the close of the market: 15:31
AfterClose == MarketCloseSecs + 60

\* Time passes while the loop sleeps, from the last sampled instant inside
\* market hours to the one after the close.
ClockAfterClose ==
    /\ pc = "sleep"
    /\ clock.tod = TimesOfDay[Len(TimesOfDay)]
    /\ clock' = [clock EXCEPT !.tod = AfterClose]
    /\ calls' = <<>>
    /\ lastEval' = NoEval
    /\ riskResult' = NoRisk
    /\ Quiet
    /\ UNCHANGED <<poller, risk, positions, pc, now, queue, bot>>

PollingNext ==
    \/ Sleep
    \/ AdvanceClock
    \/ ClockAfterClose
    \/ NextDay
    \/ Tick
    \/ MonitorStep
    \/ PollInactiveStocks
    \/ AnalyzeStep

PollingSpec == Init /\ [][PollingNext]_vars

(* ----------------------- the risk manager alone ------------------------- *)

\* Time passes between two calls of the risk manager: to a later instant
\* of the day or to the first instant of the next day.
RiskClock ==
    /\ pc = "sleep"
    /\ \/ \E tod \in RiskTimes :
             /\ tod > clock.tod
             /\ clock' = [clock EXCEPT !.tod = tod]
       \/ /\ clock.day < MaxDay
          /\ clock' = [day |-> clock.day + 1, tod |-> TimesOfDay[1]]
    /\ calls' = <<>>
    /\ lastEval' = NoEval
    /\ riskResult' = NoRisk
    /\ UNCHANGED <<poller, risk, positions, pc, now, queue, tickInfo, bot>>

\* RiskManager.calculate_position_size called for a trade.
CalculatePositionSizeCall ==
    /\ pc = "sleep"
    /\ \E trade \in RiskTrades :
          calls' = <<Call("calculate_position_size", "", <<trade[1], trade[2]>>,
                          CalculatePositionSize(risk, trade[1], trade[2]))>>
    /\ lastEval' = NoEval
    /\ riskResult' = NoRisk
    /\ pc' = "end"
    /\ UNCHANGED <<clock, poller, risk, positions, now, queue, tickInfo, bot>>

\* RiskManager.validate_trade_risk called for a trade.
ValidateTradeRiskAny ==
    /\ pc = "sleep"
    /\ \E trade \in RiskTrades :
          LET r == ResetDailyMetrics(risk, clock.day)
              m == ValidateTradeRisk(r, trade[1], trade[2], trade[3])
          IN /\ risk' = r
             /\ riskResult' = RiskCheck("validate_trade_risk", m.is_within_limits,
                                        m.rejection_reason)
             /\ calls' = <<Call("validate_trade_risk", "", trade, m)>>
    /\ lastEval' = NoEval
    /\ pc' = "end"
    /\ UNCHANGED <<clock, poller, positions, now, queue, tickInfo, bot>>

\* RiskManager.check_trading_allowed called with the broker's positions.
CheckTradingAllowedCall ==
    /\ pc = "sleep"
    /\ \E active_positions \in AccountReports :
          LET account == CheckTradingAllowed(risk, active_positions, clock)
          IN /\ risk' = account.risk
             /\ riskResult' = RiskCheck("check_trading_allowed",
                                        account.is_trading_allowed,
                                        account.risk_status)
             /\ calls' = <<Call("check_trading_allowed", "", active_positions,
                                account.risk_status)>>
    /\ lastEval' = NoEval
    /\ pc' = "end"
    /\ UNCHANGED <<clock, poller, positions, now, queue, tickInfo, bot>>

\* RiskManager.record_trade_outcome called for a closed trade.  The poller
\* closes trades of the current day only: its loop has reset the risk
\* manager for the day before any trade of the day exists.
RecordTradeOutcomeCall ==
    /\ pc = "sleep"
    /\ risk.last_reset_date = clock.day
    /\ Len(risk.daily_trades) < MaxRecorded
    /\ \E o \in RecordedOutcomes :
          /\ risk' = RecordTradeOutcome(risk, "A", o[2], o[3], o[4], o[1], clock)
          /\ calls' = <<Call("record_trade_outcome", "A", o, "")>>
    /\ lastEval' = NoEval
    /\ riskResult' = NoRisk
    /\ pc' = "end"
    /\ UNCHANGED <<clock, poller, positions, now, queue, tickInfo, bot>>

RiskNext ==
    \/ Sleep
    \/ RiskClock
    \/ CalculatePositionSizeCall
    \/ ValidateTradeRiskAny
    \/ CheckTradingAllowedCall
    \/ RecordTradeOutcomeCall
    \/ GetRiskSummary

RiskSpec == Init /\ [][RiskNext]_vars

(* ------------------------ starting and stopping ------------------------- *)

\* what a step of the bot's tasks leaves alone
BotQuiet ==
    /\ calls' = <<>>
    /\ UNCHANGED <<clock, risk, positions, pc, now, queue, lastEval,
                   riskResult, tickInfo>>

\* start_bot (POST /start): answers "already running" when
\* TradingBot.is_running, creates a task running TradingBot.start() if not.
StartBot ==
    /\ ~bot.is_running
    /\ \E t \in Tasks :
          /\ bot.tasks[t] = "none"
          /\ \A u \in Tasks : u < t => bot.tasks[u] /= "none"
          /\ bot' = [bot EXCEPT !.tasks[t] = "init"]
    /\ UNCHANGED poller
    /\ BotQuiet

\* TradingBot.start after initialize_components has returned: on failure
\* it returns; on success it sets is_running and, through
\* run_trading_loop, enters StockPoller.run_continuous_polling, which sets
\* the poller's is_running.
StartInitialized ==
    /\ \E t \in Tasks, success \in BOOLEAN :
          /\ bot.tasks[t] = "init"
          /\ bot' = IF success
                    THEN [bot EXCEPT !.is_running = TRUE,
                                     !.poller_is_running = TRUE,
                                     !.tasks[t] = "loop"]
                    ELSE [bot EXCEPT !.tasks[t] = "done"]
    /\ UNCHANGED poller
    /\ BotQuiet

\* A task's run_continuous_polling tests is_running after its sleep: it
\* leaves the loop when the flag is cleared; if not it starts an iteration,
\* with the screening when daily_screening_done is not set, with one of the
\* passes (the one that is due) or with none.
LoopEnters ==
    /\ \E t \in Tasks :
          /\ bot.tasks[t] = "loop"
          /\ \E to \in IF ~bot.poller_is_running THEN {"done"}
                        ELSE IF ~poller.daily_screening_done THEN {"screening"}
                        ELSE {"active", "inactive"} :
                bot' = [bot EXCEPT !.tasks[t] = to]
    /\ UNCHANGED poller
    /\ BotQuiet

\* The await a task is in returns and its iteration goes on:
\* daily_market_screening ends, setting daily_screening_done when it found
\* stocks, and a pass or the sleep follows; poll_active_trades ends and
\* poll_inactive_stocks or the sleep follows; poll_inactive_stocks ends and
\* the sleep follows.
LoopReturns ==
    /\ \E t \in Tasks :
          /\ bot.tasks[t] \in {"screening", "active", "inactive"}
          /\ \E to \in CASE bot.tasks[t] = "screening" -> {"active", "inactive", "loop"}
                         [] bot.tasks[t] = "active" -> {"inactive", "loop"}
                         [] OTHER -> {"loop"} :
                bot' = [bot EXCEPT !.tasks[t] = to]
          /\ \E n \in ScreeningResults :
                poller' = IF bot.tasks[t] = "screening" /\ n > 0
                          THEN [poller EXCEPT !.daily_screening_done = TRUE]
                          ELSE poller
    /\ BotQuiet

\* TradingBot.shutdown (POST /stop or a signal): clears is_running, stops
\* the poller and has the broker force the exit of all positions.  It runs
\* while the loop awaits: in its sleep or inside a pass.
StopBot ==
    /\ bot.is_running
    /\ pc \in {"sleep", "active", "inactive"}
    /\ \E blanket \in ForceExitOutcomes :
          /\ bot' = [bot EXCEPT
                       !.is_running = FALSE,
                       !.poller_is_running = FALSE,
                       !.stopped = @ \cup {t \in Tasks :
                                             bot.tasks[t] \in {"loop", "screening",
                                                               "active", "inactive"}},
                       !.swept = (blanket = "ok")]
          /\ positions' = BrokerForceExitAllPositions(positions, blanket)
          /\ calls' = <<Call("force_exit_all_positions", "", "", blanket)>>
    /\ lastEval' = NoEval
    /\ riskResult' = NoRisk
    /\ Quiet
    /\ UNCHANGED <<clock, poller, risk, pc, now, queue>>

BotNext ==
    \/ StartBot
    \/ StartInitialized
    \/ LoopEnters
    \/ LoopReturns
    \/ StopBot

BotSpec == Init /\ [][BotNext]_vars

(* ------------------------ one loop, start to stop ----------------------- *)

\* TradingBot.start with components that initialise: it sets is_running
\* and its task enters StockPoller.run_continuous_polling, which sets the
\* poller's is_running.
StartLoop ==
    /\ bot = NotStarted
    /\ bot' = [bot EXCEPT !.is_running = TRUE,
                          !.poller_is_running = TRUE,
                          !.tasks[1] = "loop"]
    /\ UNCHANGED poller
    /\ BotQuiet

\* The task's loop finds is_running set after its sleep and runs an
\* iteration.
LoopTick ==
    /\ bot.tasks[1] = "loop"
    /\ bot.poller_is_running
    /\ Tick

\* The task's loop finds is_running cleared after its sleep and returns.
LoopExits ==
    /\ pc = "sleep"
    /\ bot.tasks[1] = "loop"
    /\ ~bot.poller_is_running
    /\ bot' = [bot EXCEPT !.tasks[1] = "done"]
    /\ UNCHANGED poller
    /\ BotQuiet

\* Time passes within the day until the loop has returned.
LoopClock ==
    /\ bot.tasks[1] /= "done"
    /\ AdvanceClock

LoopNext ==
    \/ StartLoop
    \/ LoopTick
    \/ LoopExits
    \/ StopBot
    \/ Sleep
    \/ LoopClock
    \/ MonitorStep
    \/ PollInactiveStocks
    \/ AnalyzeStep

LoopSpec == Init /\ [][LoopNext]_vars

(* ------------------------------- claims --------------------------------- *)

OrdersIn(log) == {i \in 1..Len(log) : log[i].fn = "place_bracket_order"}

\* C1: after any tick of the control loop the registry holds at most
\* MAX_ACTIVE_TRADES active trades, whatever the number of monitored symbols
\* and the decisions of the oracle.
C1_ActiveTradesWithinMax ==
    pc = "end" => Cardinality(DOMAIN poller.active_trades) <= MAX_ACTIVE_TRADES

\* C2: no place_bracket_order call is made for a decision unless
\* validate_trade_risk was evaluated for that decision before it and found it
\* within limits.
C2_OrdersValidatedFirst ==
    \A i \in OrdersIn(calls) :
        \E j \in 1..(i - 1) :
            /\ calls[j].fn = "validate_trade_risk"
            /\ calls[j].arg = calls[i].arg
            /\ calls[j].res = "ok"

\* the exit reason the fixed order stop-loss, target, holding time,
\* force-exit deadline gives an evaluation
PriorityExitReason(e) ==
    IF e.transaction_type = "BUY" /\ e.price <= e.stop_loss THEN "STOP_LOSS"
    ELSE IF e.transaction_type = "SELL" /\ e.price >= e.stop_loss THEN "STOP_LOSS"
    ELSE IF e.transaction_type = "BUY" /\ e.price >= e.target_price THEN "TARGET"
    ELSE IF e.transaction_type = "SELL" /\ e.price <= e.target_price THEN "TARGET"
    ELSE IF e.held > MAX_HOLD_SECONDS THEN "TIME_LIMIT"
    ELSE IF e.deadline THEN "FORCE_EXIT"
    ELSE "NONE"

\* C3: every active trade evaluated with an available price exits for the
\* first matching condition in the order stop-loss breach, target reached,
\* more than 4 hours held, force-exit deadline reached, and does not exit
\* when none matches.
C3_ExitPriority ==
    lastEval.symbol /= "" => lastEval.reason = PriorityExitReason(lastEval)

\* C4: once a tick that ran the force exit has set force_exit_triggered, the
\* registry contains no active trade and the broker's blanket force exit was
\* invoked once in that tick.
C4_ForceExitClosesAll ==
    (tickInfo.force_ran /\ poller.force_exit_triggered) =>
        /\ DOMAIN poller.active_trades = {}
        /\ Cardinality({i \in 1..Len(calls) :
                           calls[i].fn = "force_exit_all_positions"}) = 1

CallsOf(log, fns) == {i \in 1..Len(log) : log[i].fn \in fns}

\* C5: once force_exit_triggered is set, a further call of
\* force_exit_all_trades makes no exit_position or force_exit_all_positions
\* call and changes no state of the poller, the risk manager or the broker;
\* and a loop iteration that finds the flag set, and resets nothing, does not
\* run the force exit.
C5_ForceExitIdempotent ==
    [][/\ (/\ poller.force_exit_triggered
           /\ calls' /= <<>>
           /\ calls'[1].fn = "force_exit_all_trades")
          => /\ CallsOf(calls', {"exit_position", "force_exit_all_positions"}) = {}
             /\ poller' = poller
             /\ risk' = risk
             /\ positions' = positions
       /\ (poller.force_exit_triggered /\ tickInfo'.ticked /\ ~tickInfo'.reset)
          => ~tickInfo'.force_ran]_vars

\* a further call of force_exit_all_trades was made with the flag set while
\* a trade was still in the registry and a position at the broker
C5_Witness ==
    /\ calls /= <<>>
    /\ calls[1].fn = "force_exit_all_trades"
    /\ poller.force_exit_triggered
    /\ DOMAIN poller.active_trades /= {}
    /\ positions /= {}

\* C6: the force-exit and screening flags are per day.  After an iteration
\* inside market hours before the force-exit time, force_exit_triggered is
\* not set (a value of an earlier day does not carry over); and after an
\* iteration inside market hours that did not run the force exit, screening
\* was attempted by it or was done earlier that day.
C6_FlagsPerDay ==
    (tickInfo.ticked /\ tickInfo.in_market) =>
        /\ clock.tod < ForceExitSecs => ~poller.force_exit_triggered
        /\ ~tickInfo.force_ran =>
              \/ tickInfo.screening
              \/ /\ poller.daily_screening_done
                 /\ poller.last_screening_time.day = clock.day

\* C7: the daily reset is performed by exactly the iterations that observe
\* a change of the calendar date: the first iteration on a date later than
\* that of the iteration before it.
C7_ResetOncePerDateChange ==
    tickInfo.ticked => (tickInfo.reset <=> tickInfo.date_changed)

C9_ScreeningOncePerDay ==
    [][(poller.daily_screening_done /\ poller.last_screening_time.day = clock.day)
        => /\ CallsOf(calls', {"daily_market_screening"}) = {}
           /\ DOMAIN poller'.monitored_stocks = DOMAIN poller.monitored_stocks]_vars

\* a later iteration of the day, inside market hours, went on to its polls
\* without screening
C9_Witness ==
    /\ tickInfo.ticked /\ tickInfo.in_market
    /\ ~tickInfo.force_ran /\ ~tickInfo.screening
    /\ poller.daily_screening_done
    /\ poller.last_screening_time.day = clock.day
    /\ DOMAIN poller.monitored_stocks /= {}

\* the symbols whose trade was closed today
ClosedToday == {risk.daily_trades[i].symbol : i \in 1..Len(risk.daily_trades)}

C12_QuantityPositive ==
    /\ \A s \in DOMAIN poller.active_trades :
          poller.active_trades[s].quantity > 0
    /\ \A i \in OrdersIn(calls) : OrderQuantity(Decision(calls[i].arg)) > 0

\* the registry entry of every symbol but s is left as it was
OthersUntouched(s) ==
    \A j \in {SymbolOrder[i] : i \in 1..Len(SymbolOrder)} \ {s} :
        /\ j \in DOMAIN poller'.active_trades <=> j \in DOMAIN poller.active_trades
        /\ j \in DOMAIN poller.active_trades
              => poller'.active_trades[j] = poller.active_trades[j]

\* C19: a step of a pass that handles symbol i, whatever its outcome
\* (missing price, exception, rejected order, failed exit), changes the
\* registry entry of no other symbol and leaves every later symbol of the
\* pass to be handled in the same pass: the active-trades pass goes on
\* with the rest of its snapshot, the monitored-stocks pass with the rest
\* of its stocks that are not an active trade.
C19_FailuresIsolated ==
    [][/\ (pc = "inactive" /\ queue /= <<>>)
          => /\ OthersUntouched(Head(queue))
             /\ queue' = SkipActive(poller', Tail(queue))
             /\ pc' = IF queue' = <<>> THEN "end" ELSE "inactive"
       /\ (pc = "active" /\ queue /= <<>> /\ clock' = clock)
          => /\ OthersUntouched(Head(queue))
             /\ queue' = Tail(queue)
             /\ pc' = IF queue' = <<>> THEN "inactive_start" ELSE "active"]_vars

\* the broker has rejected the order for a stock and the pass still has
\* stocks to analyse
C19_Witness ==
    /\ pc = "inactive"
    /\ queue /= <<>>
    /\ \E i \in OrdersIn(calls) : calls[i].res = "rejected"

\* C13 as stated: for positive entry and stop, entry /= stop, and every
\* current capital, calculate_position_size returns a quantity whose risk
\* is within MAX_CAPITAL_PER_TRADE of the capital and whose value is within
\* 0.9 of the capital, and a risk amount of quantity * |entry - stop|.
C13_PositionSizeWithinLimits ==
    \A i \in CallsOf(calls, {"calculate_position_size"}) :
        LET entry_price == calls[i].arg[1]
            stop_loss == calls[i].arg[2]
            quantity == calls[i].res[1]
            capital == GetCurrentCapital(risk)
        IN (entry_price > 0 /\ stop_loss > 0 /\ entry_price /= stop_loss)
           => /\ quantity * Abs(entry_price - stop_loss) * 100
                    <= capital * MAX_CAPITAL_PER_TRADE_PCT
              /\ quantity * entry_price * 100 <= capital * CAPITAL_LIMIT_PCT
              /\ calls[i].res[2] = quantity * Abs(entry_price - stop_loss)

\* C13 as amended: the same for every current capital that is not
\* negative, with a quantity that is not negative.
C13_PositionSizeNonNegativeCapital ==
    \A i \in CallsOf(calls, {"calculate_position_size"}) :
        LET entry_price == calls[i].arg[1]
            stop_loss == calls[i].arg[2]
            quantity == calls[i].res[1]
            capital == GetCurrentCapital(risk)
        IN (entry_price > 0 /\ stop_loss > 0 /\ entry_price /= stop_loss
            /\ capital >= 0)
           => /\ quantity >= 0
              /\ quantity * Abs(entry_price - stop_loss) * 100
                    <= capital * MAX_CAPITAL_PER_TRADE_PCT
              /\ quantity * entry_price * 100 <= capital * CAPITAL_LIMIT_PCT
              /\ calls[i].res[2] = quantity * Abs(entry_price - stop_loss)

\* a position was sized from a capital reduced by the day's P&L, and its
\* quantity was cut to keep its value within 0.9 of the capital
C13_Witness ==
    \E i \in CallsOf(calls, {"calculate_position_size"}) :
        /\ GetCurrentCapital(risk) > 0
        /\ GetCurrentCapital(risk) < INITIAL_CAPITAL
        /\ calls[i].res[1] > 0
        /\ (calls[i].res[1] + 1) * calls[i].arg[1] * 100
              > GetCurrentCapital(risk) * CAPITAL_LIMIT_PCT

\* the reason validate_trade_risk is to give: that of the first failing
\* check, none when no check fails
FirstFailingCheck(r, entry_price, stop_loss, target_price) ==
    LET risk_per_share == Abs(entry_price - stop_loss)
        reward_per_share == Abs(target_price - entry_price)
        quantity == CalculatePositionSize(r, entry_price, stop_loss)[1]
    IN IF risk_per_share <= 0 THEN "Invalid stop loss price"
       ELSE IF reward_per_share * 100 < MIN_RISK_REWARD_X100 * risk_per_share
       THEN "R:R ratio below minimum"
       ELSE IF quantity <= 0 THEN "Cannot calculate valid position size"
       ELSE IF quantity * risk_per_share * 100
                  > MAX_CAPITAL_PER_TRADE_PCT * GetCurrentCapital(r)
       THEN "Capital at risk exceeds limit"
       ELSE ""

\* C14: validate_trade_risk rejects with the reason of the first failing
\* check in the order invalid stop, ratio reward/risk below
\* MIN_RISK_REWARD_RATIO, non-positive quantity, capital at risk above the
\* cap; it accepts exactly when none fails, so a trade whose ratio is below
\* the minimum is never accepted.
C14_ValidationOrder ==
    \A i \in CallsOf(calls, {"validate_trade_risk"}) :
        LET trade == calls[i].arg
            m == calls[i].res
        IN /\ m.rejection_reason
                 = FirstFailingCheck(risk, trade[1], trade[2], trade[3])
           /\ m.is_within_limits <=> m.rejection_reason = ""
           /\ Abs(trade[3] - trade[1]) * 100
                 < MIN_RISK_REWARD_X100 * Abs(trade[2] - trade[1])
              => ~m.is_within_limits

\* a trade failing both the ratio check and the quantity check was
\* rejected for its ratio
C14_Witness ==
    \E i \in CallsOf(calls, {"validate_trade_risk"}) :
        /\ calls[i].res.rejection_reason = "R:R ratio below minimum"
        /\ CalculatePositionSize(risk, calls[i].arg[1], calls[i].arg[2])[1] <= 0

\* the risk status check_trading_allowed is to give for the number of
\* positions put to it: that of the first condition that holds
FirstStatus(r, active, t) ==
    IF active >= MAX_ACTIVE_TRADES THEN "MAX_TRADES_REACHED"
    ELSE IF r.daily_loss_count >= MAX_DAILY_LOSSES THEN "MAX_DAILY_LOSSES"
    ELSE IF r.max_drawdown_today.num * 100
               >= MAX_DAILY_DRAWDOWN_PCT * r.max_drawdown_today.den
    THEN "MAX_DRAWDOWN_EXCEEDED"
    ELSE IF NEAR_CLOSE_HOUR * 3600 - t.tod < NEAR_CLOSE_WINDOW
    THEN "NEAR_MARKET_CLOSE"
    ELSE "NORMAL"

\* C15: check_trading_allowed returns the status of the first condition
\* that holds in the order MAX_TRADES_REACHED (positions >= MAX_ACTIVE_TRADES),
\* MAX_DAILY_LOSSES (daily_loss_count >= MAX_DAILY_LOSSES),
\* MAX_DRAWDOWN_EXCEEDED (max_drawdown_today >= MAX_DAILY_DRAWDOWN),
\* NEAR_MARKET_CLOSE (less than 10 minutes before 15:00, or after it),
\* NORMAL otherwise; and it allows trading exactly when the status is NORMAL.
C15_StatusPriority ==
    \A i \in CallsOf(calls, {"check_trading_allowed"}) :
        /\ calls[i].res
              = FirstStatus(risk, Cardinality(DOMAIN calls[i].arg), clock)
        /\ riskResult.allowed <=> calls[i].res = "NORMAL"

\* a report of the broker in which a position has no unrealized P&L
Incomplete(report) == \E s \in DOMAIN report : report[s] = NoPnL

\* C15, for a check whose computation completes: the status is that of the
\* first condition that holds, in the order of C15, and trading is allowed
\* exactly when it is NORMAL; a check given a position without unrealized
\* P&L answers ERROR and does not allow trading.
C15_StatusPriorityUnlessError ==
    \A i \in CallsOf(calls, {"check_trading_allowed"}) :
        /\ calls[i].res
              = IF Incomplete(calls[i].arg) THEN "ERROR"
                ELSE FirstStatus(risk, Cardinality(DOMAIN calls[i].arg), clock)
        /\ riskResult.allowed <=> calls[i].res = "NORMAL"

\* a check found the loss limit reached, the drawdown limit exceeded and
\* the close near, and reported the loss limit
C15_Witness ==
    \E i \in CallsOf(calls, {"check_trading_allowed"}) :
        /\ calls[i].res = "MAX_DAILY_LOSSES"
        /\ risk.max_drawdown_today.num * 100
              >= MAX_DAILY_DRAWDOWN_PCT * risk.max_drawdown_today.den
        /\ IsNearMarketClose(clock)
        /\ ~riskResult.allowed

\* the losing outcomes recorded today
LossesToday ==
    {k \in 1..Len(risk.daily_trades) : risk.daily_trades[k].is_loss}

\* the sum of the P&L of the outcomes recorded
RECURSIVE Realized(_)
Realized(trades) ==
    IF trades = <<>> THEN 0 ELSE Head(trades).pnl + Realized(Tail(trades))

\* C16: a check_trading_allowed made on a day on which MAX_DAILY_LOSSES
\* losing outcomes have been recorded does not allow trading, and reports
\* MAX_DAILY_LOSSES when the positions are fewer than MAX_ACTIVE_TRADES,
\* whatever the day's P&L.
C16_LossLimitHolds ==
    \A i \in CallsOf(calls, {"check_trading_allowed"}) :
        Cardinality(LossesToday) >= MAX_DAILY_LOSSES
        => /\ ~riskResult.allowed
           /\ Cardinality(DOMAIN calls[i].arg) < MAX_ACTIVE_TRADES
                 => calls[i].res = "MAX_DAILY_LOSSES"

\* C16, with the status stated for a check whose computation completes: a
\* check made on a day on which MAX_DAILY_LOSSES losing outcomes have been
\* recorded does not allow trading, whatever the day's P&L; it reports
\* MAX_DAILY_LOSSES when the positions are fewer than MAX_ACTIVE_TRADES and
\* each has an unrealized P&L, and ERROR when one has none.
C16_LossLimitHoldsUnlessError ==
    \A i \in CallsOf(calls, {"check_trading_allowed"}) :
        Cardinality(LossesToday) >= MAX_DAILY_LOSSES
        => /\ ~riskResult.allowed
           /\ Incomplete(calls[i].arg) => calls[i].res = "ERROR"
           /\ (/\ Cardinality(DOMAIN calls[i].arg) < MAX_ACTIVE_TRADES
               /\ ~Incomplete(calls[i].arg))
                 => calls[i].res = "MAX_DAILY_LOSSES"

\* a check refused trading for the loss limit on a day whose gains
\* outweigh its losses
C16_Witness ==
    \E i \in CallsOf(calls, {"check_trading_allowed"}) :
        /\ Cardinality(LossesToday) >= MAX_DAILY_LOSSES
        /\ Realized(risk.daily_trades) > 0
        /\ calls[i].res = "MAX_DAILY_LOSSES"

\* C17: record_trade_outcome with a quantity above zero appends exactly one
\* outcome with pnl = (exit - entry) * quantity for BUY and
\* (entry - exit) * quantity for SELL, adds pnl to daily_pnl, and adds one
\* to daily_loss_count if and only if pnl < 0.
C17_OutcomeRecorded ==
    [][(/\ calls' /= <<>>
        /\ calls'[1].fn = "record_trade_outcome"
        /\ calls'[1].arg[4] > 0)
       => LET o == calls'[1].arg
              pnl == IF o[1] = "BUY" THEN (o[3] - o[2]) * o[4]
                     ELSE (o[2] - o[3]) * o[4]
              n == Len(risk.daily_trades)
          IN /\ Len(risk'.daily_trades) = n + 1
             /\ SubSeq(risk'.daily_trades, 1, n) = risk.daily_trades
             /\ risk'.daily_trades[n + 1].pnl = pnl
             /\ risk'.daily_pnl = risk.daily_pnl + pnl
             /\ risk'.daily_loss_count
                   = risk.daily_loss_count + (IF pnl < 0 THEN 1 ELSE 0)]_vars

\* a break-even trade was recorded
C17_Witness ==
    /\ calls /= <<>>
    /\ calls[1].fn = "record_trade_outcome"
    /\ calls[1].arg[4] > 0
    /\ risk.daily_trades /= <<>>
    /\ risk.daily_trades[Len(risk.daily_trades)].pnl = 0
    /\ Cardinality(LossesToday) = 0

\* C18: a position sized on a day whose recorded outcomes sum to a loss
\* is sized from a capital reduced by that loss: its risk is within
\* MAX_CAPITAL_PER_TRADE of INITIAL_CAPITAL plus the recorded P&L (the
\* unrealized P&L reported here is never a gain, so the capital is no
\* higher than that).
C18_CapitalTracksOutcomes ==
    \A i \in CallsOf(calls, {"calculate_position_size"}) :
        (risk.last_reset_date = clock.day /\ Realized(risk.daily_trades) < 0)
        => calls[i].res[1] * Abs(calls[i].arg[1] - calls[i].arg[2]) * 100
              <= MAX_CAPITAL_PER_TRADE_PCT
                    * (INITIAL_CAPITAL + Realized(risk.daily_trades))

\* C20: at any time at most one task is in the screening, at most one in
\* an active-trades pass and at most one in a monitored-stocks pass.
C20_OneInFlight ==
    \A phase \in {"screening", "active", "inactive"} :
        Cardinality({t \in Tasks : bot.tasks[t] = phase}) <= 1

\* C23: a status query (the poller's status and the risk summary it
\* reports) leaves the registry, the scheduler flags and timestamps, and
\* the fields of the risk manager as they are, also on a new calendar date
\* before the loop's next iteration.
C23_StatusMutatesNothing ==
    [][(calls' /= <<>> /\ calls'[1].fn = "get_risk_summary")
       => (poller' = poller /\ risk' = risk)]_vars

\* C24: once the exit of an active trade was attempted for its stop or
\* target and failed (the trade is still in the registry with the price
\* that breached them), the next evaluation of the trade in an
\* active-trades pass attempts the exit again, wherever the price is now.
C24_FailedExitRetried ==
    [][(/\ pc = "active"
        /\ queue /= <<>>
        /\ clock' = clock
        /\ ExitReason(poller, poller.active_trades[Head(queue)],
                      poller.active_trades[Head(queue)].current_price, NoTime)
              \in {"STOP_LOSS", "TARGET"})
       => \E i \in CallsOf(calls', {"exit_position"}) :
              calls'[i].sym = Head(queue)]_vars

\* the exits the broker has carried out in the calls of a step
ExitsDone(log) ==
    {i \in CallsOf(log, {"exit_position"}) : log[i].res = "ok"}

\* C26: every successful exit, whatever its reason, records in the same
\* step exactly one outcome with the P&L of the trade's entry price, last
\* polled price, quantity and side, removes the trade from the registry
\* and clears the stock's is_active_trade flag; so a step adds as many
\* outcomes to daily_trades as it has carried out exits.
C26_ExitRecordsOutcome ==
    [][/\ \A i \in ExitsDone(calls') :
             LET s == calls'[i].sym
                 trade == poller.active_trades[s]
                 price == IF lastEval'.symbol = s THEN lastEval'.price
                          ELSE trade.current_price
                 pnl == IF trade.transaction_type = "BUY"
                        THEN (price - trade.entry_price) * trade.quantity
                        ELSE (trade.entry_price - price) * trade.quantity
                 added == {k \in (Len(risk.daily_trades) + 1)..Len(risk'.daily_trades) :
                              risk'.daily_trades[k].symbol = s}
             IN /\ Cardinality(added) = 1
                /\ \A k \in added : risk'.daily_trades[k].pnl = pnl
                /\ s \notin DOMAIN poller'.active_trades
                /\ s \in DOMAIN poller'.monitored_stocks
                      => ~poller'.monitored_stocks[s].is_active_trade
       /\ ExitsDone(calls') /= {}
             => Len(risk'.daily_trades)
                   = Len(risk.daily_trades) + Cardinality(ExitsDone(calls'))]_vars

\* C21: a loop that was running when stop() was requested starts no
\* further iteration: from the sleep that ends its iteration it goes on to
\* no screening and no pass, it only leaves the loop.
C21_StoppedLoopEnds ==
    [][\A t \in bot.stopped :
          bot.tasks[t] = "loop" => bot'.tasks[t] \in {"loop", "done"}]_vars

C30_NoWorkOutsideHours ==
    [][(/\ tickInfo'.ticked
        /\ (clock.tod < MarketOpenSecs \/ clock.tod > MarketCloseSecs))
       => /\ \A i \in 1..Len(calls') : calls'[i].fn = "reset_daily_state"
          /\ lastEval' = NoEval
          /\ riskResult' = NoRisk
          /\ positions' = positions
          /\ calls' = <<>> => (poller' = poller /\ risk' = risk)
          /\ pc' = "end"]_vars

\* an iteration after the close has left alone the active trades that no
\* force exit had closed
C30_Witness ==
    /\ tickInfo.ticked
    /\ clock.tod > MarketCloseSecs
    /\ DOMAIN poller.active_trades /= {}
    /\ positions /= {}
    /\ ~poller.force_exit_triggered
    /\ pc = "end"

\* the exits the broker has refused, or failed with an exception, in the
\* calls of a step
ExitsFailed(log) ==
    {i \in CallsOf(log, {"exit_position"}) : log[i].res /= "ok"}

\* C27: an exit attempt whose exit_position fails, by its answer or by an
\* exception, leaves the trade in the registry with the stock's
\* is_active_trade flag set and records no outcome for it; a step whose
\* exits all fail leaves daily_trades, daily_pnl and daily_loss_count as
\* they are.
C27_FailedExitKeepsTrade ==
    [][/\ \A i \in ExitsFailed(calls') :
             LET s == calls'[i].sym
             IN /\ s \in DOMAIN poller'.active_trades
                /\ s \in DOMAIN poller'.monitored_stocks
                /\ poller'.monitored_stocks[s].is_active_trade
                /\ \A k \in (Len(risk.daily_trades) + 1)..Len(risk'.daily_trades) :
                      risk'.daily_trades[k].symbol /= s
       /\ (ExitsFailed(calls') /= {} /\ ExitsDone(calls') = {})
             => /\ risk'.daily_trades = risk.daily_trades
                /\ risk'.daily_pnl = risk.daily_pnl
                /\ risk'.daily_loss_count = risk.daily_loss_count]_vars

\* in one force exit the exit of a trade has raised and the exit of
\* another has succeeded
C27_Witness ==
    /\ \E i \in ExitsFailed(calls) :
          /\ calls[i].res = "raise"
          /\ calls[i].sym \in DOMAIN poller.active_trades
    /\ ExitsDone(calls) /= {}
    /\ risk.daily_trades /= <<>>

\* the calls of a function of the trade logger that failed in a step
LogFailures(log, fn) == {i \in CallsOf(log, {fn}) : log[i].res = "fail"}

\* C25: a failure of the trade logger changes no trading transition.  When
\* log_trade_decision fails for a decision that is to be traded, the order
\* is still placed; when log_trade_execution fails for a filled order, the
\* trade is still registered and the stock flagged; when log_trade_exit
\* fails for an exit the broker carried out, the outcome is still handed to
\* record_trade_outcome, the trade removed and the flag cleared.
C25_LoggingBestEffort ==
    [][/\ \A i \in LogFailures(calls', "log_trade_decision") :
             ShouldTrade(Decision(calls'[i].arg))
             => \E j \in OrdersIn(calls') :
                   /\ j > i
                   /\ calls'[j].sym = calls'[i].sym
                   /\ calls'[j].arg = calls'[i].arg
       /\ \A i \in LogFailures(calls', "log_trade_execution") :
             LET s == calls'[i].sym
             IN /\ s \in DOMAIN poller'.active_trades
                /\ poller'.active_trades[s].entry_time = clock
                /\ poller'.active_trades[s].entry_price
                      = Decision(calls'[i].arg).entry_price
                /\ poller'.monitored_stocks[s].is_active_trade
       /\ \A i \in LogFailures(calls', "log_trade_exit") :
             LET s == calls'[i].sym
                 trade == poller.active_trades[s]
                 price == IF lastEval'.symbol = s THEN lastEval'.price
                          ELSE trade.current_price
             IN /\ s \notin DOMAIN poller'.active_trades
                /\ s \in DOMAIN poller'.monitored_stocks
                      => ~poller'.monitored_stocks[s].is_active_trade
                /\ Cardinality(ExitsDone(calls')) = 1
                      => risk' = RecordTradeOutcome(risk, s, trade.entry_price,
                                     price, trade.quantity,
                                     trade.transaction_type, clock)]_vars

\* the trade logger failed for the decision and for the execution of an
\* order, and the trade is registered
C25_Witness ==
    /\ LogFailures(calls, "log_trade_decision") /= {}
    /\ \E i \in LogFailures(calls, "log_trade_execution") :
          /\ calls[i].sym \in DOMAIN poller.active_trades
          /\ calls[i].sym \in positions

\* stop_loss < entry_price < target_price for a BUY, the reverse for a SELL
Ordered(side, entry_price, stop_loss, target_price) ==
    IF side = "BUY"
    THEN stop_loss < entry_price /\ entry_price < target_price
    ELSE target_price < entry_price /\ entry_price < stop_loss

\* C28: every order placed, and every active trade in the registry, has
\* its stop below and its target above the entry price when it is a BUY,
\* and the reverse when it is a SELL; so no price meets both the stop-loss
\* and the target condition of a trade.
C28_StopTargetOrdered ==
    /\ \A i \in OrdersIn(calls) :
          LET d == Decision(calls[i].arg)
          IN Ordered(d.decision, d.entry_price, d.stop_loss, d.target_price)
    /\ \A s \in DOMAIN poller.active_trades :
          LET trade == poller.active_trades[s]
          IN /\ trade.transaction_type \in {"BUY", "SELL"}
             /\ Ordered(trade.transaction_type, trade.entry_price,
                        trade.stop_loss, trade.target_price)
             /\ \A price \in Prices \ {0} :
                   IF trade.transaction_type = "BUY"
                   THEN ~(price <= trade.stop_loss /\ price >= trade.target_price)
                   ELSE ~(price >= trade.stop_loss /\ price <= trade.target_price)

\* the oracle has returned a decision whose stop or target is on the wrong
\* side of the entry price; no order was placed for it, while a trade of
\* another stock is in the registry
C28_Witness ==
    /\ \E i \in CallsOf(calls, {"log_trade_decision"}) :
          /\ calls[i].arg \in {"BADSTOP", "BADTARGET"}
          /\ calls[i].sym \notin DOMAIN poller.active_trades
    /\ OrdersIn(calls) = {}
    /\ DOMAIN poller.active_trades /= {}

\* the calls of a step that ask for or carry out an entry
EntryCalls(log) == CallsOf(log, {"log_trade_decision", "place_bracket_order"})

\* C29: within an iteration the exits come before the entries.  Once the
\* iteration has reached poll_inactive_stocks, no step of it evaluates or
\* executes an exit or goes back to the active trades; a decision is asked
\* for and an order placed only in the rounds of poll_inactive_stocks; and
\* a round of poll_active_trades asks for no decision and places no order,
\* so no step has both an exit and an entry.
C29_ExitsBeforeEntries ==
    [][/\ pc \in {"inactive_start", "inactive"}
          => /\ pc' \in {"inactive", "end"}
             /\ lastEval' = NoEval
             /\ CallsOf(calls', {"exit_position"}) = {}
       /\ EntryCalls(calls') /= {}
          => /\ pc = "inactive"
             /\ CallsOf(calls', {"exit_position"}) = {}
       /\ (pc = "active" /\ clock' = clock)
          => /\ EntryCalls(calls') = {}
             /\ pc' \in {"active", "inactive_start"}]_vars

\* poll_active_trades has just ended with an exit sent for a symbol, and in
\* the same iteration poll_inactive_stocks is due, trading is allowed and
\* that symbol is among the stocks it will ask a decision for
C29_Witness ==
    /\ pc = "inactive_start"
    /\ now /= NoTime
    /\ \/ poller.last_inactive_poll = NoTime
       \/ SecondsBetween(now, poller.last_inactive_poll) >= INACTIVE_POLL_INTERVAL
    /\ \E pnl \in PositionReports(positions) :
          CheckTradingAllowed(risk, pnl, clock).is_trading_allowed
    /\ \E i \in 1..Len(calls) :
          /\ calls[i].fn = "exit_position"
          /\ calls[i].sym \in DOMAIN poller.monitored_stocks
          /\ \E k \in 1..Len(SkipActive(poller, MonitoredOrder(poller))) :
                SkipActive(poller, MonitoredOrder(poller))[k] = calls[i].sym

\* the monitored stocks and the active trades of the poller
Registry(p) == <<p.monitored_stocks, p.active_trades, p.active_order>>

\* an iteration whose daily_market_screening selected nothing leaves
\* daily_screening_done false and the registry as it found it (as the daily
\* reset of the same iteration left it), and goes on to its passes
ScreeningFailureContained ==
    (tickInfo'.screening /\ tickInfo'.screen_failed = tickInfo'.day)
        => /\ ~poller'.daily_screening_done
           /\ Registry(poller') =
                 IF tickInfo'.reset
                 THEN <<EmptyMap, EmptyMap, <<>> >>
                 ELSE Registry(poller)
           /\ pc' \in {"active", "inactive_start"}

\* C31 as stated: a screening that selected nothing is contained, and every
\* iteration in market hours that starts later on that day, while the last
\* screening is still one that selected nothing, runs the screening again.
C31_ScreeningRetried ==
    [][/\ ScreeningFailureContained
       /\ (tickInfo'.ticked /\ tickInfo'.in_market
           /\ tickInfo.screen_failed = tickInfo'.day)
          => tickInfo'.screening]_vars

\* C31 amended: a screening that selected nothing is contained, and it is
\* run again by the next iteration in market hours of that day that is not
\* the force exit; the iteration that runs the force exit skips the
\* screening, which the iteration after it runs.
C31_ScreeningRetriedUnlessForceExit ==
    [][/\ ScreeningFailureContained
       /\ (tickInfo'.ticked /\ tickInfo'.in_market /\ ~tickInfo'.force_ran
           /\ tickInfo.screen_failed = tickInfo'.day)
          => tickInfo'.screening
       /\ (tickInfo'.ticked /\ tickInfo'.force_ran) => ~tickInfo'.screening]_vars

\* a screening run again after one that selected nothing has selected stocks
C31_Witness ==
    /\ tickInfo.screen_retry
    /\ poller.daily_screening_done
    /\ DOMAIN poller.monitored_stocks /= {}

\* C32: after check_trading_allowed has returned, daily_pnl is the sum of
\* the unrealized P&L of the positions it was given, and max_drawdown_today
\* is at least the fractional drop of INITIAL_CAPITAL + that sum below
\* start_of_day_capital.
C32_DrawdownCoversPositions ==
    \A i \in 1..Len(calls) :
        calls[i].fn = "check_trading_allowed" =>
            LET active_positions == calls[i].arg
                pnl == SumOver(active_positions, DOMAIN active_positions)
                capital == INITIAL_CAPITAL + pnl
                start == risk.start_of_day_capital
            IN /\ risk.daily_pnl = pnl
               /\ (start > 0 /\ capital < start)
                  => ~FracLess(risk.max_drawdown_today,
                               Frac(start - capital, start))

\* the symbols of the calls of fn in a log
SymbolsOf(log, fn) == {log[i].sym : i \in {k \in 1..Len(log) : log[k].fn = fn}}

\* the symbols of a sequence
Range(seq) == {seq[i] : i \in 1..Len(seq)}

\* C33: each cadence respects its interval.  A decision is asked for only
\* in a round of poll_inactive_stocks, once for the symbol of the round,
\* which the pass does not come back to; the end of the last pass that
\* was completed, last_inactive_poll, is then at least
\* INACTIVE_POLL_INTERVAL back, and the pass stamps last_inactive_poll when
\* it ends; so two requests for a symbol lie in two passes, the later one
\* at least the interval after the end of the earlier pass.  The same
\* holds for the exit evaluations of poll_active_trades with
\* last_active_poll and ACTIVE_POLL_INTERVAL.
C33_CadencesRespectIntervals ==
    [][/\ SymbolsOf(calls', "log_trade_decision") /= {}
          => /\ pc = "inactive"
             /\ SymbolsOf(calls', "log_trade_decision") = {Head(queue)}
             /\ Cardinality(CallsOf(calls', {"log_trade_decision"})) = 1
             /\ Head(queue) \notin Range(queue')
             /\ \/ poller.last_inactive_poll = NoTime
                \/ SecondsBetween(clock', poller.last_inactive_poll)
                      >= INACTIVE_POLL_INTERVAL
       /\ pc = "inactive"
          => /\ pc' \in {"inactive", "end"}
             /\ pc' = "end" => poller'.last_inactive_poll = clock'
       /\ (pc = "active" /\ lastEval'.symbol /= "")
          => /\ lastEval'.symbol = Head(queue)
             /\ Head(queue) \notin Range(queue')
             /\ \/ poller.last_active_poll = NoTime
                \/ SecondsBetween(clock', poller.last_active_poll)
                      >= ACTIVE_POLL_INTERVAL
       /\ (pc = "active" /\ clock' = clock)
          => /\ pc' \in {"active", "inactive_start"}
             /\ pc' = "inactive_start" => poller'.last_active_poll = clock'
       /\ lastEval'.symbol /= "" => pc = "active"]_vars

\* a decision is asked for in a pass that follows a completed one, in a
\* loop whose active-trades pass has run as well
C33_Witness ==
    /\ pc = "inactive"
    /\ SymbolsOf(calls, "log_trade_decision") /= {}
    /\ poller.last_inactive_poll /= NoTime
    /\ poller.last_active_poll /= NoTime
    /\ SecondsBetween(clock, poller.last_inactive_poll) >= INACTIVE_POLL_INTERVAL

\* the position size of the specification: the risk allowed divided by
\* the risk per share and rounded down, replaced by 0.9 of the capital
\* divided by the entry price and rounded down when the position would be
\* worth more than that; \div rounds down
ReferencePositionSize(capital, entry_price, stop_loss) ==
    LET risk_per_share == Abs(entry_price - stop_loss)
        by_risk == (capital * MAX_CAPITAL_PER_TRADE_PCT) \div (100 * risk_per_share)
        quantity ==
            IF by_risk * entry_price * 100 > capital * CAPITAL_LIMIT_PCT
            THEN (capital * CAPITAL_LIMIT_PCT) \div (100 * entry_price)
            ELSE by_risk
    IN IF risk_per_share = 0 THEN <<0, 0>>
       ELSE <<quantity, quantity * risk_per_share>>

\* C34 as stated: for every current capital calculate_position_size returns
\* the quantity and the risk of the reference formula; for a capital of
\* 100000, entry 2500 and stop 2450 they are 20 and 1000.
C34_PositionSizeIsReference ==
    \A i \in CallsOf(calls, {"calculate_position_size"}) :
        LET entry_price == calls[i].arg[1]
            stop_loss == calls[i].arg[2]
            capital == GetCurrentCapital(risk)
        IN /\ calls[i].res = ReferencePositionSize(capital, entry_price, stop_loss)
           /\ (capital = 100000 /\ entry_price = 2500 /\ stop_loss = 2450)
              => calls[i].res = <<20, 1000>>

\* C34 as amended: the same for every current capital that is not negative.
C34_PositionSizeIsReferenceNonNegative ==
    \A i \in CallsOf(calls, {"calculate_position_size"}) :
        LET entry_price == calls[i].arg[1]
            stop_loss == calls[i].arg[2]
            capital == GetCurrentCapital(risk)
        IN capital >= 0
           => /\ calls[i].res = ReferencePositionSize(capital, entry_price, stop_loss)
              /\ (capital = 100000 /\ entry_price = 2500 /\ stop_loss = 2450)
                 => calls[i].res = <<20, 1000>>

\* the position of the scenario was sized: capital 100000, entry 2500 and
\* stop 2450
C34_Witness ==
    \E i \in CallsOf(calls, {"calculate_position_size"}) :
        /\ GetCurrentCapital(risk) = 100000
        /\ calls[i].arg = <<2500, 2450>>
        /\ calls[i].res = <<20, 1000>>

\* C35: a round of poll_active_trades that gets no price for its trade
\* leaves the trade in the registry as it was (current_price and
\* unrealized_pnl included), evaluates no exit condition and sends no exit
\* for it, and the pass goes on with the trades after it.
C35_MissingPriceSkipsTrade ==
    [][\A i \in 1..Len(calls') :
          (calls'[i].fn = "monitor_active_trade" /\ calls'[i].res = 0)
          => LET symbol == calls'[i].sym
             IN /\ symbol = Head(queue)
                /\ symbol \in DOMAIN poller'.active_trades
                /\ poller'.active_trades = poller.active_trades
                /\ poller'.active_order = poller.active_order
                /\ poller'.monitored_stocks = poller.monitored_stocks
                /\ positions' = positions
                /\ risk' = risk
                /\ lastEval' = NoEval
                /\ CallsOf(calls', {"exit_position"}) = {}
                /\ queue' = Tail(queue)
                /\ pc' = IF Tail(queue) = <<>> THEN "inactive_start" ELSE "active"]_vars

\* no price was got for a trade whose price had moved, and another trade
\* of the pass is still to be evaluated
C35_Witness ==
    /\ pc = "active"
    /\ queue /= <<>>
    /\ \E i \in 1..Len(calls) :
          /\ calls[i].fn = "monitor_active_trade"
          /\ calls[i].res = 0
          /\ calls[i].sym \in DOMAIN poller.active_trades
          /\ poller.active_trades[calls[i].sym].current_price
                /= poller.active_trades[calls[i].sym].entry_price

\* C36: in every state the loop leaves, a monitored stock has its
\* is_active_trade flag set if and only if active_trades holds a trade for
\* its symbol, and every active trade is that of a monitored stock.
C36_FlagMatchesRegistry ==
    /\ \A s \in DOMAIN poller.monitored_stocks :
          poller.monitored_stocks[s].is_active_trade
              <=> s \in DOMAIN poller.active_trades
    /\ DOMAIN poller.active_trades \subseteq DOMAIN poller.monitored_stocks

\* an exit has failed and left its trade and the flag of its stock, beside
\* a monitored stock without a trade
C36_Witness ==
    /\ \E i \in 1..Len(calls) :
          /\ calls[i].fn = "exit_position"
          /\ calls[i].res = "fail"
          /\ calls[i].sym \in DOMAIN poller.active_trades
          /\ poller.monitored_stocks[calls[i].sym].is_active_trade
    /\ \E s \in DOMAIN poller.monitored_stocks :
          ~poller.monitored_stocks[s].is_active_trade

\* what identifies an active trade: its entry
Entry(trade) ==
    <<trade.entry_time, trade.entry_price, trade.stop_loss, trade.target_price,
      trade.quantity, trade.transaction_type>>

\* C37: no order is placed for a symbol that has an active trade in the
\* registry; a symbol's trade that is in the registry before and after a
\* step is the same trade, so a symbol has one trade at a time and no
\* entry overwrites a trade.
C37_NoOrderForActiveSymbol ==
    [][/\ \A i \in OrdersIn(calls') :
             calls'[i].sym \notin DOMAIN poller.active_trades
       /\ \A s \in DOMAIN poller.active_trades \cap DOMAIN poller'.active_trades :
             Entry(poller'.active_trades[s]) = Entry(poller.active_trades[s])]_vars

\* an order was filled for a symbol in a pass that skipped another symbol,
\* whose trade had been entered at an earlier time
C37_Witness ==
    \E i \in OrdersIn(calls) :
        /\ calls[i].res = "ok"
        /\ calls[i].sym \in DOMAIN poller.active_trades
        /\ \E s \in DOMAIN poller.active_trades :
              /\ s /= calls[i].sym
              /\ Secs(poller.active_trades[s].entry_time)
                    < Secs(poller.active_trades[calls[i].sym].entry_time)

\* the risk manager has reset its metrics for the day of t and a limit of
\* the day is reached: daily_loss_count or max_drawdown_today
Latched(r, t) ==
    /\ r.last_reset_date = t.day
    /\ \/ r.daily_loss_count >= MAX_DAILY_LOSSES
       \/ r.max_drawdown_today.num * 100
             >= MAX_DAILY_DRAWDOWN_PCT * r.max_drawdown_today.den

\* C38: risk stops latch for the day.  Between two resets of the daily
\* metrics daily_loss_count and max_drawdown_today never decrease; a
\* check_trading_allowed that returns MAX_DAILY_LOSSES or
\* MAX_DRAWDOWN_EXCEEDED leaves a limit of the day reached; and a
\* check_trading_allowed made on a day whose limit is reached does not
\* allow trading, whatever was recorded and whatever positions it is given.
C38_RiskStopsLatch ==
    [][/\ risk'.last_reset_date = risk.last_reset_date
          => /\ risk'.daily_loss_count >= risk.daily_loss_count
             /\ ~FracLess(risk'.max_drawdown_today, risk.max_drawdown_today)
       /\ (riskResult'.fn = "check_trading_allowed"
           /\ riskResult'.status \in {"MAX_DAILY_LOSSES", "MAX_DRAWDOWN_EXCEEDED"})
          => Latched(risk', clock')
       /\ (riskResult'.fn = "check_trading_allowed" /\ Latched(risk, clock'))
          => /\ ~riskResult'.allowed
             /\ Latched(risk', clock')
       /\ (Latched(risk, clock) /\ clock'.day = clock.day)
          => Latched(risk', clock')]_vars

\* check_trading_allowed has refused for MAX_DAILY_LOSSES on a day on which
\* the limit was reached before the call and a gain was recorded after it
C38_Witness ==
    /\ riskResult.fn = "check_trading_allowed"
    /\ riskResult.status = "MAX_DAILY_LOSSES"
    /\ ~riskResult.new_day
    /\ riskResult.losses_before >= MAX_DAILY_LOSSES
    /\ Len(risk.daily_trades) > MAX_DAILY_LOSSES
    /\ risk.daily_trades[Len(risk.daily_trades)].pnl > 0

\* C39: no step registers a new active trade when the clock is within
\* ten minutes of 15:00 or past it, and none while force_exit_triggered is
\* set, from the force exit to the next daily reset.
C39_NoEntryNearCloseOrAfterForceExit ==
    [][DOMAIN poller'.active_trades \ DOMAIN poller.active_trades /= {}
          => /\ ~IsNearMarketClose(clock')
             /\ ~poller.force_exit_triggered]_vars

\* C40: check_trading_allowed fails closed.  For every report of the held
\* positions in which a position has no unrealized P&L it answers
\* is_trading_allowed false with risk_status ERROR, having done no more
\* than the daily reset; no answer ERROR allows trading; and the step of
\* poll_inactive_stocks that gets ERROR ends the pass with nothing queued,
\* no decision asked, no order placed, and the registry and the broker's
\* positions as they were.
C40_CheckFailsClosed ==
    [][/\ \A report \in PositionReports(positions) :
             LET account == CheckTradingAllowed(risk, report, clock)
             IN /\ Incomplete(report)
                   => /\ ~account.is_trading_allowed
                      /\ account.risk_status = "ERROR"
                      /\ account.risk = ResetDailyMetrics(risk, clock.day)
                /\ account.risk_status = "ERROR" => ~account.is_trading_allowed
       /\ \A i \in CallsOf(calls', {"check_trading_allowed"}) :
             calls'[i].res = "ERROR"
             => /\ pc = "inactive_start"
                /\ riskResult'.status = "ERROR"
                /\ ~riskResult'.allowed
                /\ pc' = "end"
                /\ queue' = <<>>
                /\ EntryCalls(calls') = {}
                /\ Registry(poller') = Registry(poller)
                /\ positions' = positions]_vars

\* a pass over the monitored stocks has just ended on the answer ERROR, with
\* a stock to analyse and every limit respected: the same pass with complete
\* reports would have gone on to ask for a decision
C40_Witness ==
    /\ pc = "end"
    /\ riskResult.fn = "check_trading_allowed"
    /\ riskResult.status = "ERROR"
    /\ \E i \in 1..Len(calls) : calls[i].res = "ERROR"
    /\ SkipActive(poller, MonitoredOrder(poller)) /= <<>>
    /\ CheckTradingAllowed(risk, [s \in positions |-> 0], clock).is_trading_allowed
====
